---- MODULE Spec2Model ----
(***************************************************************************)
(* worklogr: the concurrent event collector (internal/collector), the      *)
(* SQLite persistence layer (internal/database), the Slack retry layer     *)
(* (internal/services), the token store and the auth managers              *)
(* (internal/auth) and the time range checks.                              *)
(*                                                                         *)
(* The specifications share the variables below; each one runs one         *)
(* component and keeps the others in their initial state.  SpecCollect     *)
(* runs one call of EventCollector.CollectEvents with one worker goroutine *)
(* per candidate service.  SpecDB runs InsertEvent / InsertEvents /        *)
(* GetEvents / DeleteOldEvents of DatabaseManager against the events and   *)
(* event_attachments tables.  SpecRetry runs RetryTransport.RoundTrip and  *)
(* RetryableSlackClient.RetryableAPICall.  SpecPop runs                    *)
(* populateAttachments over event lists around the chunk size, SpecAttach  *)
(* runs InsertEvent with attachment identifiers that hold spaces and       *)
(* underscores, SpecInit runs InitializeServices and                       *)
(* InitializeServicesFor, and SpecClient runs the CollectEvents method of  *)
(* the Slack, GitHub and Google Calendar clients.                          *)
(***************************************************************************)
EXTENDS Integers, Sequences, FiniteSets, TLC

VARIABLES
    \* ---- EventCollector.CollectEvents ----
    services,           \* ec.services: the names with an initialized client
    serviceNames,       \* the serviceNames argument of the call (the filter)
    servicesToCollect,  \* the candidate set built from the filter
    cpc,                \* the calling goroutine: "idle", "waiting", "returned"
    wpc,                \* each worker goroutine's position
    fetched,            \* what client.CollectEvents returned to each worker
    called,             \* how often each client's CollectEvents was invoked
    mu,                 \* sync.Mutex: the worker holding it, or NoOne
    allEvents,          \* the shared accumulator
    ret,                \* what CollectEvents returned: [events, err]
    \* ---- DatabaseManager ----
    eventsTable,        \* table events, in rowid order
    attachmentsTable,   \* table event_attachments, in rowid order
    tx,                 \* the open transaction: its copy of the tables and
                        \* the events it has executed
    dbRet,              \* what the last DatabaseManager call returned
    latest,             \* history: the event last inserted under each ID
    prev,               \* history: <<list>> of the previous InsertEvents
                        \* while the running call repeats it, else <<>>
    \* ---- RetryableSlackClient / RetryTransport ----
    maxRetries,         \* RetryTransport.MaxRetries = r.maxRetries
    rt,                 \* RoundTrip: position, attempt, the attempts made
                        \* and the delays slept so far
    rtRet,              \* what RoundTrip returned: [resp, err]
    api,                \* RetryableAPICall: position, attempt, lastErr, the
                        \* attempts made and the delays slept so far
    apiRet,             \* what RetryableAPICall returned: [err]
    \* ---- TokenStore and the auth managers ----
    now,                \* time.Now(), in minutes
    tokenFile,          \* the store file: absent, or the list of StoredToken
    storeRet,           \* what the last TokenStore call returned
    mgr,                \* the auth manager: its kind, config and status
    authRet,            \* what the last auth manager call returned
    \* ---- ValidateTimeRange ----
    rangeIn,            \* the inputs: startTime, endTime, time.Now() and the
                        \* TimezoneManager's location
    rangeRet,           \* the error each ValidateTimeRange returned
    \* ---- DatabaseManager.populateAttachments ----
    popIn,              \* the events it is handed and the attachment rows stored
    popOut,             \* the events as it leaves them: <<events>>, or <<>>
    \* ---- EventCollector.InitializeServices / InitializeServicesFor ----
    initCfg,            \* ec.config and which constructors succeed
    initRet,            \* what the last Initialize... call did and returned
    \* ---- the service clients' CollectEvents ----
    clientIn,           \* startTime, endTime, the configured location, the remote's items
    clientRet           \* the timestamps of the events each client returned

collectVars == <<services, serviceNames, servicesToCollect, cpc, wpc, fetched,
                 called, mu, allEvents, ret>>
dbVars == <<eventsTable, attachmentsTable, tx, dbRet, latest, prev>>
retryVars == <<maxRetries, rt, rtRet, api, apiRet>>
authVars == <<now, tokenFile, storeRet, mgr, authRet>>
rangeVars == <<rangeIn, rangeRet>>
popVars == <<popIn, popOut>>
initVars == <<initCfg, initRet>>
clientVars == <<clientIn, clientRet>>
vars == <<collectVars, dbVars, retryVars, authVars, rangeVars, popVars, initVars, clientVars>>
\* what the steps of one component leave alone
outsideCollect == <<dbVars, retryVars, authVars, rangeVars, popVars, initVars, clientVars>>
outsideDb == <<collectVars, retryVars, authVars, rangeVars, popVars, initVars, clientVars>>
outsideRetry == <<collectVars, dbVars, authVars, rangeVars, popVars, initVars, clientVars>>
outsideAuth == <<collectVars, dbVars, retryVars, rangeVars, popVars, initVars, clientVars>>
outsideRange == <<collectVars, dbVars, retryVars, authVars, popVars, initVars, clientVars>>
outsidePop == <<collectVars, dbVars, retryVars, authVars, rangeVars, initVars, clientVars>>
outsideInit == <<collectVars, dbVars, retryVars, authVars, rangeVars, popVars, clientVars>>
outsideClient == <<collectVars, dbVars, retryVars, authVars, rangeVars, popVars, initVars>>

(***************************************************************************)
(* Bounds of the model.                                                    *)
(***************************************************************************)
\* longest event list one service returns to the collector
MaxEvents == 2
\* collector timestamps are the instants 1..MaxTs
MaxTs == 2
\* longest serviceNames filter
MaxFilter == 2
\* stored instants and query bounds are the ticks 0..MaxTick
MaxTick == 2
\* longest list handed to InsertEvents
MaxBatch == 2

\* ticks per second: the model's instants have half-second resolution
TicksPerSec == 2
\* populateAttachments asks for the attachments of chunkSize IDs at a time
chunkSize == 900
\* largest maxRetries argument handed to NewRetryableSlackClient
MaxRetriesArg == 2
\* NewRetryableSlackClient: "Default to 3 retries"
DefaultMaxRetries == 3
\* longest request body handed to RoundTrip, in bytes
MaxBodyLen == 1
\* the clock of the token store and the auth managers runs from 0 to MaxNow
MaxNow == 1
\* ValidateTimeRange is given instants 0..MaxRangeHour hours, and the same
\* instants a year later
MaxRangeHour == 1
\* the clients are asked for ranges within the days 0..MaxDay
MaxDay == 1
\* most items a remote service answers with
MaxItems == 1

NoOne == "nobody"
Nil == "nil"

\* Sequences over S of length at most n.
SeqsUpTo(S, n) == UNION {[1..k -> S] : k \in 0..n}

Range(s) == {s[i] : i \in 1..Len(s)}

(***************************************************************************)
(* The collector.                                                          *)
(***************************************************************************)
\* Names a client can be initialized under, and the names a filter may hold:
\* "jira" is a name no client is ever registered under.
ServiceNames == {"slack", "github"}
FilterNames == ServiceNames \cup {"jira"}

\* The events a service returns: event i of service s has the ID <<s, i>>,
\* its timestamp is free (a service may answer unsorted).
EventLists(s) ==
    {[i \in 1..Len(ts) |-> [id |-> <<s, i>>, service |-> s, timestamp |-> ts[i]]]
        : ts \in SeqsUpTo(1..MaxTs, MaxEvents)}

\* ServiceClient.CollectEvents: a list of events, or an error.
FetchResults(s) ==
    {[err |-> Nil, events |-> l] : l \in EventLists(s)}
        \cup {[err |-> "upstream failed", events |-> <<>>]}

NoResult == [err |-> "not fetched", events |-> <<>>]

\* time.Time.After on the events' timestamps.
After(t, u) == t > u

\* One inner-loop step of the bubble sort: compare events[j], events[j+1]
\* and swap them when the left one is later.
SwapIfAfter(events, j) ==
    IF After(events[j].timestamp, events[j + 1].timestamp)
    THEN [events EXCEPT ![j] = events[j + 1], ![j + 1] = events[j]]
    ELSE events

\* The inner loop for j = from .. upto (0-based j of the code is j - 1 here).
RECURSIVE BubblePass(_, _, _)
BubblePass(events, j, upto) ==
    IF j > upto THEN events
    ELSE BubblePass(SwapIfAfter(events, j), j + 1, upto)

\* The outer loop: pass i (0-based) runs j over 0 .. n-i-2.
RECURSIVE BubbleOuter(_, _)
BubbleOuter(events, i) ==
    IF i >= Len(events) - 1 THEN events
    ELSE BubbleOuter(BubblePass(events, 1, Len(events) - i - 1), i + 1)

\* Mutant of sortEventsByTimestamp: the outer loop is dropped and the list
\* gets a single bubble pass.
sortEventsSinglePass(events) == BubblePass(events, 1, Len(events) - 1)

sortEventsByTimestamp(events) == BubbleOuter(events, 0)

\* Mutant of SelectServices: the filter is ignored.
SelectServicesIgnoringFilter(filter, initialized) == initialized

\* The candidate set: every initialized service without a filter, else the
\* filter's names that are initialized (a map: a repeated name counts once).
SelectServices(filter, initialized) ==
    IF Len(filter) > 0
    THEN {n \in Range(filter) : n \in initialized}
    ELSE initialized

InitCollect ==
    /\ services \in SUBSET ServiceNames
    /\ serviceNames = <<>>
    /\ servicesToCollect = {}
    /\ cpc = "idle"
    /\ wpc = [s \in FilterNames |-> "none"]
    /\ fetched = [s \in FilterNames |-> NoResult]
    /\ called = [s \in FilterNames |-> 0]
    /\ mu = NoOne
    /\ allEvents = <<>>
    /\ ret = [events |-> <<>>, err |-> "pending"]

\* Mutant of CollectEventsBegin: the empty candidate set is not rejected, the
\* call goes on to wg.Wait() with no worker.
CollectEventsBeginNoCheck(filter) ==
    /\ cpc = "idle"
    /\ serviceNames' = filter
    /\ servicesToCollect' = SelectServices(filter, services)
    /\ cpc' = "waiting"
    /\ wpc' = [s \in FilterNames |->
                  IF s \in SelectServices(filter, services) THEN "start" ELSE "none"]
    /\ UNCHANGED <<services, fetched, called, mu, allEvents, ret, outsideCollect>>

\* CollectEvents up to wg.Wait(): choose the candidates, fail when there are
\* none, else start one goroutine per candidate.
CollectEventsBegin(filter) ==
    /\ cpc = "idle"
    /\ serviceNames' = filter
    /\ LET cand == SelectServices(filter, services) IN
        /\ servicesToCollect' = cand
        /\ IF cand = {}
           THEN /\ cpc' = "returned"
                /\ ret' = [events |-> <<>>, err |-> "no services available"]
                /\ wpc' = wpc
           ELSE /\ cpc' = "waiting"
                /\ ret' = ret
                /\ wpc' = [s \in FilterNames |->
                              IF s \in cand THEN "start" ELSE "none"]
    /\ UNCHANGED <<services, fetched, called, mu, allEvents, outsideCollect>>

\* A worker calls its client; on an error it logs and returns (wg.Done).
WorkerFetch(s, r) ==
    /\ wpc[s] = "start"
    /\ called' = [called EXCEPT ![s] = @ + 1]
    /\ fetched' = [fetched EXCEPT ![s] = r]
    /\ wpc' = [wpc EXCEPT ![s] = IF r.err = Nil THEN "fetched" ELSE "done"]
    /\ UNCHANGED <<services, serviceNames, servicesToCollect, cpc, mu,
                   allEvents, ret, outsideCollect>>

\* A variant of mu.Lock() that does not wait for the mutex to be free.
WorkerLockNoWait(s) ==
    /\ wpc[s] = "fetched"
    /\ mu' = s
    /\ wpc' = [wpc EXCEPT ![s] = "locked"]
    /\ UNCHANGED <<services, serviceNames, servicesToCollect, cpc, fetched,
                   called, allEvents, ret, outsideCollect>>

\* mu.Lock()
WorkerLock(s) ==
    /\ wpc[s] = "fetched"
    /\ mu = NoOne
    /\ mu' = s
    /\ wpc' = [wpc EXCEPT ![s] = "locked"]
    /\ UNCHANGED <<services, serviceNames, servicesToCollect, cpc, fetched,
                   called, allEvents, ret, outsideCollect>>

\* Mutant of WorkerAppend: the worker assigns its events to the accumulator
\* instead of appending them.
WorkerAppendOverwrite(s) ==
    /\ wpc[s] = "locked"
    /\ allEvents' = fetched[s].events
    /\ wpc' = [wpc EXCEPT ![s] = "appended"]
    /\ UNCHANGED <<services, serviceNames, servicesToCollect, cpc, fetched,
                   called, mu, ret, outsideCollect>>

\* allEvents = append(allEvents, events...)
WorkerAppend(s) ==
    /\ wpc[s] = "locked"
    /\ allEvents' = allEvents \o fetched[s].events
    /\ wpc' = [wpc EXCEPT ![s] = "appended"]
    /\ UNCHANGED <<services, serviceNames, servicesToCollect, cpc, fetched,
                   called, mu, ret, outsideCollect>>

\* mu.Unlock(), then the deferred wg.Done()
WorkerUnlock(s) ==
    /\ wpc[s] = "appended"
    /\ mu' = NoOne
    /\ wpc' = [wpc EXCEPT ![s] = "done"]
    /\ UNCHANGED <<services, serviceNames, servicesToCollect, cpc, fetched,
                   called, allEvents, ret, outsideCollect>>

\* A variant whose wg.Wait() returns as soon as one worker is done.
CollectEventsReturnAfterFirst ==
    /\ cpc = "waiting"
    /\ \E s \in servicesToCollect : wpc[s] = "done"
    /\ cpc' = "returned"
    /\ ret' = [events |-> sortEventsByTimestamp(allEvents), err |-> Nil]
    /\ UNCHANGED <<services, serviceNames, servicesToCollect, wpc, fetched,
                   called, mu, allEvents, outsideCollect>>

\* wg.Wait() returns once every worker is done; sort and return a nil error.
CollectEventsReturn ==
    /\ cpc = "waiting"
    /\ \A s \in servicesToCollect : wpc[s] = "done"
    /\ cpc' = "returned"
    /\ ret' = [events |-> sortEventsByTimestamp(allEvents), err |-> Nil]
    /\ UNCHANGED <<services, serviceNames, servicesToCollect, wpc, fetched,
                   called, mu, allEvents, outsideCollect>>

\* The retry layer with no call under way.
NoCall == [pc |-> "idle"]
RetryIdle ==
    /\ maxRetries = DefaultMaxRetries
    /\ rt = NoCall
    /\ rtRet = [op |-> "none"]
    /\ api = NoCall
    /\ apiRet = [op |-> "none"]

\* The token store with no file yet and no auth manager constructed.
NoFile == [exists |-> FALSE, tokens |-> <<>>]
NoManager == [kind |-> "none"]
AuthIdle ==
    /\ now = 0
    /\ tokenFile = NoFile
    /\ storeRet = [op |-> "none"]
    /\ mgr = NoManager
    /\ authRet = [op |-> "none"]

\* No time range under validation.
RangeIdle ==
    /\ rangeIn = [given |-> FALSE]
    /\ rangeRet = [ec |-> "pending", tm |-> "pending"]

\* No client was asked to collect.
ClientIdle ==
    /\ clientIn = [given |-> FALSE]
    /\ clientRet = [c \in {"slack", "github", "google_calendar"} |-> <<"pending">>]

\* No configuration is loaded, no Initialize... call was made.
InitIdle ==
    /\ initCfg = [loaded |-> FALSE]
    /\ initRet = [op |-> "none"]

\* populateAttachments is not under study.
PopIdle ==
    /\ popIn = [given |-> FALSE]
    /\ popOut = <<>>

\* The database is not used while the collector runs.
DbIdle ==
    /\ eventsTable = <<>>
    /\ attachmentsTable = <<>>
    /\ tx = [active |-> FALSE]
    /\ dbRet = [op |-> "none", err |-> "nil"]
    /\ latest = <<>>
    /\ prev = <<>>

InitSpecCollect ==
    /\ InitCollect
    /\ DbIdle /\ RetryIdle /\ AuthIdle /\ RangeIdle /\ PopIdle /\ InitIdle /\ ClientIdle

NextCollect ==
    \/ \E filter \in SeqsUpTo(FilterNames, MaxFilter) : CollectEventsBegin(filter)
    \/ \E s \in ServiceNames : \E r \in FetchResults(s) : WorkerFetch(s, r)
    \/ \E s \in ServiceNames : WorkerLock(s)
    \/ \E s \in ServiceNames : WorkerAppend(s)
    \/ \E s \in ServiceNames : WorkerUnlock(s)
    \/ CollectEventsReturn

SpecCollect == InitSpecCollect /\ [][NextCollect]_vars

\* The scheduler runs every goroutine that can take a step: a worker that
\* has its fetch result locks, appends and unlocks, and the caller leaves
\* wg.Wait() when it can.  Nothing is assumed about a fetch: the call of a
\* client's CollectEvents may never return.
FairCollect ==
    /\ \A s \in ServiceNames :
           /\ WF_vars(WorkerLock(s))
           /\ WF_vars(WorkerAppend(s))
           /\ WF_vars(WorkerUnlock(s))
    /\ WF_vars(CollectEventsReturn)

SpecCollectFair == SpecCollect /\ FairCollect

\* The sequential CollectEvents: the clients are called one after the other,
\* in the order the range over the map servicesToCollect takes (order), a
\* failing client is skipped, and the accumulated list is sorted.
RECURSIVE SequentialAccumulate(_, _, _)
SequentialAccumulate(order, results, k) ==
    IF k > Len(order) THEN <<>>
    ELSE (IF results[order[k]].err = Nil THEN results[order[k]].events
          ELSE <<>>)
             \o SequentialAccumulate(order, results, k + 1)

SequentialCollectEvents(order, results) ==
    sortEventsByTimestamp(SequentialAccumulate(order, results, 1))

\* The orders a range over a map of these keys may take.
MapOrders(keys) ==
    {o \in [1..Cardinality(keys) -> keys] :
        \A a, b \in 1..Cardinality(keys) : a # b => o[a] # o[b]}

(***************************************************************************)
(* The persistence layer.                                                  *)
(*                                                                         *)
(* Time is counted in ticks of 1/TicksPerSec second.  A time.Time is an    *)
(* instant (ticks, UTC) together with the zone offset (hours) it carries.  *)
(* go-sqlite3 binds a time.Time as the text                                *)
(* "2006-01-02 15:04:05.999999999-07:00": the wall clock of the value's    *)
(* own zone followed by its offset.  The timestamp column keeps that text. *)
(* The column created_at of table events is written by its DEFAULT only    *)
(* and read by no statement; it is not part of the rows below.             *)
(*                                                                         *)
(* InsertEvent and InsertEvents run statement by statement inside a        *)
(* transaction that works on a copy of the tables (tx.db); Commit installs *)
(* the copy, the deferred Rollback drops it.                               *)
(***************************************************************************)
TicksPerHour == 3600 * TicksPerSec

\* IDs are strings, written as sequences of characters.
DbEventKeys ==
    {[id |-> <<"s", "1">>, service |-> "slack"],
     [id |-> <<"c", "1">>, service |-> "google_calendar"]}
DbEventIDs == {k.id : k \in DbEventKeys}

\* The zone a client stamps its events with: the Slack client builds them
\* with time.Unix (the local zone, Asia/Tokyo by default); the Calendar API
\* answers in UTC.
ZoneOf(service) == IF service = "slack" THEN 9 ELSE 0

Instants == 0..MaxTick

\* The attachment lists an event carries: Slack events none; Calendar events
\* none, or one file followed by an entry without a FileID.
NoFileID == <<>>
AttachmentLists(service) ==
    IF service = "slack" THEN {<<>>}
    ELSE {<<>>,
          <<[file_id |-> <<"f">>, title |-> "notes"],
            [file_id |-> NoFileID, title |-> "untitled"]>>}

\* The config.Event values handed to the database.
DbEvents ==
    UNION {{[id |-> k.id, service |-> k.service,
             timestamp |-> [inst |-> t, off |-> ZoneOf(k.service)],
             attachments |-> al]
               : t \in Instants, al \in AttachmentLists(k.service)}
           : k \in DbEventKeys}

\* time.Time.Format("2006-01-02 15:04:05.999999999-07:00"), the bound text.
FormatTimestamp(t) == [local |-> t.inst + t.off * TicksPerHour, off |-> t.off]

\* Scanning the column back into a time.Time.
ParseTimestamp(txt) == [inst |-> txt.local - txt.off * TicksPerHour, off |-> txt.off]

\* time.Time.UTC().Format("2006-01-02 15:04:05"): whole seconds, UTC.
FormatSecondsUTC(t) == t.inst \div TicksPerSec

\* SQLite datetime(text): the text's offset is applied and the result is
\* "YYYY-MM-DD HH:MM:SS" in UTC, the fraction of the second cut off.
SqlDatetime(txt) == (txt.local - txt.off * TicksPerHour) \div TicksPerSec

\* The order of two "+HH:MM" / "-HH:MM" suffixes as text: '+' sorts before
\* '-', then the digits decide.
SuffixLess(a, b) ==
    \/ a >= 0 /\ b < 0
    \/ a >= 0 /\ b >= 0 /\ a < b
    \/ a < 0 /\ b < 0 /\ -a < -b

\* The order of two timestamp texts (ORDER BY timestamp compares the column
\* as text, byte by byte): the wall clock first, then the suffix.
TextLess(x, y) ==
    \/ x.local < y.local
    \/ x.local = y.local /\ SuffixLess(x.off, y.off)

ReplaceSpaces(str) == [i \in 1..Len(str) |-> IF str[i] = " " THEN "_" ELSE str[i]]

attachmentRowID(eventID, fileID) == ReplaceSpaces(eventID \o <<"_", "_">> \o fileID)

\* The row an event is written as (the columns the model keeps).
EventRow(e) ==
    [id |-> e.id, service |-> e.service, timestamp |-> FormatTimestamp(e.timestamp)]

AttachmentRow(e, a) ==
    [id |-> attachmentRowID(e.id, a.file_id), event_id |-> e.id,
     file_id |-> a.file_id, title |-> a.title]

RowsWithout(table, id) == SelectSeq(table, LAMBDA r : r.id # id)

\* Mutant of InsertOrReplace: INSERT OR IGNORE, the stored row is kept.
InsertOrIgnore(table, row) ==
    IF \E i \in 1..Len(table) : table[i].id = row.id THEN table
    ELSE Append(table, row)

\* Mutant of InsertOrReplace: a plain insert into a table without the
\* primary key, the old row stays beside the new one.
InsertPlain(table, row) == Append(table, row)

\* INSERT OR REPLACE: the row with the same primary key is deleted and the
\* new row is added.
InsertOrReplace(table, row) == Append(RowsWithout(table, row.id), row)

\* Both tables, as a transaction sees them.
Db(events, attachments) == [events |-> events, attachments |-> attachments]

\* Which statement of one loop iteration fails, if any: the event's INSERT,
\* or the INSERT of its k-th attachment.
NoFault == [kind |-> "none"]
EventFault == [kind |-> "event"]
AttachmentFault(k) == [kind |-> "attachment", k |-> k]
Faults(e) ==
    {NoFault, EventFault} \cup {AttachmentFault(k) : k \in 1..Len(e.attachments)}

\* The loop of insertAttachmentsTx over e's attachments from k on: entries
\* without a FileID are skipped, a failing Exec ends the loop.
RECURSIVE AttachLoop(_, _, _, _)
AttachLoop(db, e, k, fault) ==
    IF k > Len(e.attachments) THEN [db |-> db, err |-> Nil]
    ELSE IF e.attachments[k].file_id = NoFileID
         THEN AttachLoop(db, e, k + 1, fault)
    ELSE IF fault = AttachmentFault(k)
         THEN [db |-> db, err |-> "failed to insert attachment"]
    ELSE AttachLoop(
            Db(db.events,
               InsertOrReplace(db.attachments, AttachmentRow(e, e.attachments[k]))),
            e, k + 1, fault)

insertAttachmentsTx(db, e, fault) ==
    IF Len(e.attachments) = 0 THEN [db |-> db, err |-> Nil]
    ELSE AttachLoop(db, e, 1, fault)

\* One iteration of the loop of InsertEvents (and the body of InsertEvent):
\* the event's row, then its attachments.
ExecEventStatements(db, e, fault) ==
    IF fault = EventFault
    THEN [db |-> db, err |-> "failed to insert event"]
    ELSE insertAttachmentsTx(
            Db(InsertOrReplace(db.events, EventRow(e)), db.attachments), e, fault)

\* Mutant of Rollback: nothing is undone, what the transaction wrote stays.
RollbackNothing(committed, written) == written

\* The deferred tx.Rollback() of a transaction that was not committed.
Rollback(committed, written) == committed

NoTx == [active |-> FALSE]
CurrentDb == Db(eventsTable, attachmentsTable)

\* History: <<the event most recently inserted under each ID>>, or <<>>.
LastOccurrence(events, id) ==
    LET at == {i \in 1..Len(events) : events[i].id = id}
    IN events[CHOOSE i \in at : \A j \in at : j <= i]

Recorded(events) ==
    [id \in DbEventIDs |->
        IF \E i \in 1..Len(events) : events[i].id = id
        THEN <<LastOccurrence(events, id)>>
        ELSE latest[id]]

InitDB ==
    /\ eventsTable = <<>>
    /\ attachmentsTable = <<>>
    /\ tx = NoTx
    /\ prev = <<>>
    /\ dbRet = [op |-> "none", err |-> Nil]
    /\ latest = [id \in DbEventIDs |-> <<>>]

\* InsertEvents / InsertEvent up to the loop: dm.db.Begin() and tx.Prepare.
\* prev remembers the list of the call before, when that was a successful
\* InsertEvents.
BeginTx(op) ==
    /\ ~tx.active
    /\ tx' = [active |-> TRUE, op |-> op, db |-> CurrentDb, done |-> <<>>]
    /\ prev' = IF dbRet.op = "InsertEvents" /\ dbRet.err = Nil
               THEN <<dbRet.events>> ELSE <<>>
    /\ dbRet' = [op |-> op, err |-> "running"]
    /\ UNCHANGED <<eventsTable, attachmentsTable, latest, outsideDb>>

\* The next event of the list: its statements run inside the transaction.
\* When one fails the call returns its error and the deferred Rollback runs.
ExecEvent(e, fault) ==
    /\ tx.active
    /\ Len(tx.done) < (IF tx.op = "InsertEvent" THEN 1 ELSE MaxBatch)
    /\ \E r \in {ExecEventStatements(tx.db, e, fault)} :
          IF r.err = Nil
          THEN /\ tx' = [tx EXCEPT !.db = r.db, !.done = Append(@, e)]
               /\ prev' = IF /\ prev # <<>>
                             /\ Len(tx.done) < Len(prev[1])
                             /\ prev[1][Len(tx.done) + 1] = e
                          THEN prev ELSE <<>>
               /\ UNCHANGED <<eventsTable, attachmentsTable, dbRet>>
          ELSE /\ tx' = NoTx
               /\ prev' = <<>>
               /\ \E kept \in {Rollback(CurrentDb, r.db)} :
                     /\ eventsTable' = kept.events
                     /\ attachmentsTable' = kept.attachments
               /\ dbRet' = [op |-> tx.op, err |-> r.err, n |-> Len(tx.done)]
    /\ UNCHANGED <<latest, outsideDb>>

\* The end of the list: tx.Commit(); when it fails the deferred Rollback
\* runs.  (InsertEvent commits after its one event.)
Commit(fails) ==
    /\ tx.active
    /\ tx.op = "InsertEvent" => Len(tx.done) = 1
    /\ tx' = NoTx
    /\ IF fails
       THEN /\ \E kept \in {Rollback(CurrentDb, tx.db)} :
                  /\ eventsTable' = kept.events
                  /\ attachmentsTable' = kept.attachments
            /\ dbRet' = [op |-> tx.op, err |-> "failed to commit transaction",
                         n |-> Len(tx.done)]
            /\ prev' = <<>>
            /\ latest' = latest
       ELSE /\ eventsTable' = tx.db.events
            /\ attachmentsTable' = tx.db.attachments
            /\ dbRet' = [op |-> tx.op, err |-> Nil, events |-> tx.done]
            /\ prev' = IF prev = <<tx.done>> /\ tx.op = "InsertEvents"
                       THEN prev ELSE <<>>
            /\ latest' = Recorded(tx.done)
    /\ UNCHANGED outsideDb

\* The WHERE clause of GetEvents: both sides go through datetime(), the
\* bounds having been formatted in UTC to the second; the optional
\* service IN (...) list.
InRange(row, startTime, endTime) ==
    /\ SqlDatetime(row.timestamp) >= FormatSecondsUTC(startTime)
    /\ SqlDatetime(row.timestamp) <= FormatSecondsUTC(endTime)

Selected(table, startTime, endTime, svcs) ==
    SelectSeq(table, LAMBDA r :
        /\ InRange(r, startTime, endTime)
        /\ Len(svcs) > 0 => r.service \in Range(svcs))

\* ORDER BY timestamp ASC: any order of the selected rows in which no row
\* comes before one whose text is smaller.
Orderings(rows) ==
    {o \in [1..Len(rows) -> 1..Len(rows)] :
        /\ \A i, j \in 1..Len(rows) : i # j => o[i] # o[j]
        /\ \A i \in 1..Len(rows) - 1 :
              ~TextLess(rows[o[i + 1]].timestamp, rows[o[i]].timestamp)}

\* One chunk's query: the rows whose event_id is among the chunk's IDs, in
\* the order the table holds them.
ChunkQuery(table, chunk) == SelectSeq(table, LAMBDA r : r.event_id \in chunk)

\* The rows.Next() loop from row k on: each row is appended to the event
\* eventByID holds under its event_id (the last event of that ID).
RECURSIVE AppendAttachments(_, _, _)
AppendAttachments(events, rows, k) ==
    IF k > Len(rows) THEN events
    ELSE LET at == {n \in 1..Len(events) : events[n].id = rows[k].event_id}
         IN IF at = {} THEN AppendAttachments(events, rows, k + 1)
            ELSE LET n == CHOOSE n \in at : \A m \in at : m <= n
                 IN AppendAttachments(
                        [events EXCEPT ![n].attachments =
                            Append(@, [file_id |-> rows[k].file_id,
                                       title |-> rows[k].title])],
                        rows, k + 1)

\* Mutant of populateAttachments: the loop steps one ID too far, the first
\* ID after each full chunk is in no query.
RECURSIVE populateAttachmentsSkipping(_, _, _)
populateAttachmentsSkipping(events, table, i) ==
    IF i > Len(events) THEN events
    ELSE LET last == IF i + chunkSize - 1 > Len(events) THEN Len(events)
                     ELSE i + chunkSize - 1
             chunk == {events[n].id : n \in i..last}
         IN populateAttachmentsSkipping(
                AppendAttachments(events, ChunkQuery(table, chunk), 1),
                table, last + 2)

\* populateAttachments: the IDs go out in chunks of chunkSize, from event i
\* on (ids[i:end] of the code is events i..last here); every chunk's
\* attachment rows are appended to their events.
RECURSIVE populateAttachments(_, _, _)
populateAttachments(events, table, i) ==
    IF i > Len(events) THEN events
    ELSE LET last == IF i + chunkSize - 1 > Len(events) THEN Len(events)
                     ELSE i + chunkSize - 1
             chunk == {events[n].id : n \in i..last}
         IN populateAttachments(
                AppendAttachments(events, ChunkQuery(table, chunk), 1),
                table, last + 1)

\* A scanned row as a config.Event.
ScanEvent(row) ==
    [id |-> row.id, service |-> row.service,
     timestamp |-> ParseTimestamp(row.timestamp), attachments |-> <<>>]

\* DatabaseManager.GetEvents(startTime, endTime, services)
GetEvents(startTime, endTime, svcs) ==
    /\ ~tx.active
    /\ \E rows \in {Selected(eventsTable, startTime, endTime, svcs)} :
       \E o \in Orderings(rows) :
          dbRet' = [op |-> "GetEvents", startTime |-> startTime,
                    endTime |-> endTime, services |-> svcs, err |-> Nil,
                    events |-> populateAttachments(
                                  [i \in 1..Len(rows) |-> ScanEvent(rows[o[i]])],
                                  attachmentsTable, 1)]
    /\ prev' = <<>>
    /\ UNCHANGED <<eventsTable, attachmentsTable, tx, latest, outsideDb>>

\* The query bounds (GetEvents takes them to UTC; callers pass a range that
\* ValidateTimeRange accepted, startTime not after endTime) and the service
\* lists.
QueryTimes == {[inst |-> t, off |-> 0] : t \in Instants}
QueryRanges == {r \in QueryTimes \X QueryTimes : r[1].inst <= r[2].inst}
QueryServices == {<<>>, <<"slack">>}

\* time.Now() carries the process's local zone, the zone time.Unix gives the
\* Slack timestamps.
LocalZone == ZoneOf("slack")

\* "DELETE FROM events WHERE timestamp < ?": the cutoff is bound as text like
\* any time.Time, and the column is compared with it as text.
DeleteWhereOlder(events, cutoff) ==
    SelectSeq(events,
              LAMBDA row : ~TextLess(row.timestamp, FormatTimestamp(cutoff)))

\* A variant without the WHERE clause.
DeleteOldEventsAll(cutoffInstant, fails) ==
    /\ ~tx.active
    /\ IF fails
       THEN /\ dbRet' = [op |-> "DeleteOldEvents", cutoff |-> cutoffInstant,
                         err |-> "failed to delete old events"]
            /\ UNCHANGED eventsTable
       ELSE /\ eventsTable' = <<>>
            /\ dbRet' = [op |-> "DeleteOldEvents", cutoff |-> cutoffInstant,
                         err |-> Nil]
    /\ prev' = <<>>
    /\ UNCHANGED <<attachmentsTable, tx, latest, outsideDb>>

\* DeleteOldEvents(olderThan); cutoffInstant is time.Now() less olderThan.
\* One statement on the events table, outside any transaction; nothing
\* touches event_attachments (the schema declares no foreign key).
DeleteOldEvents(cutoffInstant, fails) ==
    /\ ~tx.active
    /\ IF fails
       THEN /\ dbRet' = [op |-> "DeleteOldEvents", cutoff |-> cutoffInstant,
                         err |-> "failed to delete old events"]
            /\ UNCHANGED eventsTable
       ELSE /\ eventsTable' = DeleteWhereOlder(eventsTable,
                                  [inst |-> cutoffInstant, off |-> LocalZone])
            /\ dbRet' = [op |-> "DeleteOldEvents", cutoff |-> cutoffInstant,
                         err |-> Nil]
    /\ prev' = <<>>
    /\ UNCHANGED <<attachmentsTable, tx, latest, outsideDb>>

\* The collector is not used while the database runs.
CollectIdle ==
    /\ services = {}
    /\ serviceNames = <<>>
    /\ servicesToCollect = {}
    /\ cpc = "idle"
    /\ wpc = [s \in FilterNames |-> "none"]
    /\ fetched = [s \in FilterNames |-> NoResult]
    /\ called = [s \in FilterNames |-> 0]
    /\ mu = NoOne
    /\ allEvents = <<>>
    /\ ret = [events |-> <<>>, err |-> "pending"]

InitSpecDB ==
    /\ InitDB
    /\ CollectIdle /\ RetryIdle /\ AuthIdle /\ RangeIdle /\ PopIdle
    /\ InitIdle /\ ClientIdle

NextDB ==
    \/ \E op \in {"InsertEvents", "InsertEvent"} : BeginTx(op)
    \/ \E e \in DbEvents : \E fault \in Faults(e) : ExecEvent(e, fault)
    \/ \E fails \in BOOLEAN : Commit(fails)
    \/ \E r \in QueryRanges : \E svcs \in QueryServices :
          GetEvents(r[1], r[2], svcs)
    \/ \E c \in Instants : \E fails \in BOOLEAN : DeleteOldEvents(c, fails)

SpecDB == InitSpecDB /\ [][NextDB]_vars

(***************************************************************************)
(* populateAttachments on its own, with event lists long enough to cross   *)
(* the chunk boundary.  The k-th scanned event has the ID k (GetEvents     *)
(* scans rows of a table whose primary key is the ID, so the IDs differ),  *)
(* and its Attachments are empty as the scan leaves them.                  *)
(***************************************************************************)
\* most rows of event_attachments
MaxPopRows == 2

\* The numbers of events handed over: none, one, and the counts at and
\* across the first and the second chunk boundary.
PopCounts ==
    {0, 1, chunkSize - 1, chunkSize, chunkSize + 1, 2 * chunkSize,
     2 * chunkSize + 1}

\* The rows event_attachments may hold: of the last ID of the first chunk,
\* the first ID of the second chunk and the first ID of the third chunk.
PopRows ==
    {[event_id |-> id, file_id |-> f, title |-> "notes"] :
        id \in {chunkSize, chunkSize + 1, 2 * chunkSize + 1},
        f \in {<<"f">>, <<"g">>}}

\* The table's rows differ in (event_id, file_id).
PopTables ==
    {t \in SeqsUpTo(PopRows, MaxPopRows) :
        \A i, j \in 1..Len(t) : i # j => t[i] # t[j]}

ScannedEvents(n) == [k \in 1..n |-> [id |-> k, attachments |-> <<>>]]

InitPop ==
    /\ popIn \in {[given |-> TRUE, n |-> n, table |-> t] :
                    n \in PopCounts, t \in PopTables}
    /\ popOut = <<>>

\* dm.populateAttachments(events)
PopulateAttachmentsCall ==
    /\ popIn.given
    /\ popOut = <<>>
    /\ popOut' = <<populateAttachments(ScannedEvents(popIn.n), popIn.table, 1)>>
    /\ UNCHANGED <<popIn, outsidePop>>

InitSpecPop ==
    /\ InitPop
    /\ CollectIdle /\ DbIdle /\ RetryIdle /\ AuthIdle /\ RangeIdle
    /\ InitIdle /\ ClientIdle

NextPop == PopulateAttachmentsCall

SpecPop == InitSpecPop /\ [][NextPop]_vars

(***************************************************************************)
(* InsertEvent with event IDs and file IDs that hold spaces and "__".      *)
(***************************************************************************)
AttachEventIDs == {<<"e">>, <<"e", "_", "_", "f">>}
AttachFileIDs == {<<"g">>, <<"f", "_", "_", "g">>, <<"f", " ", "_", "g">>}

\* Calendar events with no attachment or with one; the attachment's FileID
\* may be empty.
AttachEvents ==
    {[id |-> id, service |-> "google_calendar",
      timestamp |-> [inst |-> 0, off |-> ZoneOf("google_calendar")],
      attachments |-> al] :
        id \in AttachEventIDs,
        al \in {<<>>} \cup {<<[file_id |-> f, title |-> "notes"]>> :
                                f \in AttachFileIDs \cup {NoFileID}}}

NextAttach ==
    \/ BeginTx("InsertEvent")
    \/ \E e \in AttachEvents : \E fault \in Faults(e) : ExecEvent(e, fault)
    \/ \E fails \in BOOLEAN : Commit(fails)

SpecAttach == InitSpecDB /\ [][NextAttach]_vars

(***************************************************************************)
(* EventCollector.InitializeServices and InitializeServicesFor.  Both fill *)
(* ec.services, the variable services of the collector.                    *)
(***************************************************************************)
\* The services a client exists for, in the order InitializeServices takes
\* them; "jira" is a name it knows no client for.
ClientNames == <<"slack", "github", "google_calendar">>
RequestedNames == Range(ClientNames) \cup {"jira"}

\* ec.config as far as the two functions read it, and the constructors that
\* succeed: Enabled of each service, AccessToken # "" of Slack and GitHub,
\* and the set of services whose New...Client returns no error.
InitConfigs ==
    [loaded : {TRUE},
     enabled : [Range(ClientNames) -> BOOLEAN],
     token : [{"slack", "github"} -> BOOLEAN],
     builds : SUBSET Range(ClientNames)]

HasToken(cfg, s) == s = "google_calendar" \/ cfg.token[s]

\* Mutant of InitializeAll: the first failing constructor ends the loop.
RECURSIVE InitializeAllFailFast(_, _, _, _)
InitializeAllFailFast(cfg, k, registered, attempted) ==
    IF k > Len(ClientNames)
    THEN [services |-> registered, attempted |-> attempted,
          err |-> IF registered = {} THEN "no services" ELSE Nil]
    ELSE LET s == ClientNames[k] IN
         IF cfg.enabled[s] /\ HasToken(cfg, s)
         THEN IF s \in cfg.builds
              THEN InitializeAllFailFast(cfg, k + 1, registered \cup {s},
                                         Append(attempted, s))
              ELSE [services |-> registered, attempted |-> Append(attempted, s),
                    err |-> "construction failed"]
         ELSE InitializeAllFailFast(cfg, k + 1, registered, attempted)

\* The three blocks of InitializeServices from block k on: a service that is
\* enabled (and has its token) is constructed, a failure is logged only.
RECURSIVE InitializeAll(_, _, _, _)
InitializeAll(cfg, k, registered, attempted) ==
    IF k > Len(ClientNames)
    THEN [services |-> registered, attempted |-> attempted,
          err |-> IF registered = {} THEN "no services" ELSE Nil]
    ELSE LET s == ClientNames[k] IN
         IF cfg.enabled[s] /\ HasToken(cfg, s)
         THEN InitializeAll(cfg, k + 1,
                            IF s \in cfg.builds THEN registered \cup {s}
                            ELSE registered,
                            Append(attempted, s))
         ELSE InitializeAll(cfg, k + 1, registered, attempted)

prioritizeCalendarService(names) ==
    SelectSeq(names, LAMBDA n : n = "google_calendar")
        \o SelectSeq(names, LAMBDA n : n # "google_calendar")

\* The loop of InitializeServicesFor over the ordered names from k on.
RECURSIVE InitializeFor(_, _, _, _, _)
InitializeFor(cfg, ordered, k, registered, attempted) ==
    IF k > Len(ordered)
    THEN [services |-> registered, attempted |-> attempted,
          err |-> IF registered = {} THEN "no services" ELSE Nil]
    ELSE LET s == ordered[k]
             fails(e) == [services |-> registered, attempted |-> attempted,
                          err |-> e]
         IN IF s \notin Range(ClientNames) THEN fails("unknown service")
            ELSE IF ~cfg.enabled[s] THEN fails("disabled")
            ELSE IF ~HasToken(cfg, s) THEN fails("no access token")
            ELSE IF s \notin cfg.builds
                 THEN [services |-> registered,
                       attempted |-> Append(attempted, s),
                       err |-> "construction failed"]
            ELSE InitializeFor(cfg, ordered, k + 1, registered \cup {s},
                               Append(attempted, s))

InitInit ==
    /\ initCfg \in InitConfigs
    /\ initRet = [op |-> "none"]

\* ec.InitializeServices()
InitializeServices ==
    /\ initCfg.loaded
    /\ \E r \in {InitializeAll(initCfg, 1, {}, <<>>)} :
          /\ services' = r.services
          /\ initRet' = [op |-> "InitializeServices", attempted |-> r.attempted,
                         err |-> r.err]
    /\ UNCHANGED <<initCfg, serviceNames, servicesToCollect, cpc, wpc, fetched,
                   called, mu, allEvents, ret, dbVars, retryVars, authVars,
                   rangeVars, popVars, clientVars>>

\* ec.InitializeServicesFor(names)
InitializeServicesFor(names) ==
    /\ initCfg.loaded
    /\ \E r \in {IF Len(names) = 0
                  THEN [services |-> {}, attempted |-> <<>>,
                        err |-> "no service named"]
                  ELSE InitializeFor(initCfg, prioritizeCalendarService(names),
                                     1, {}, <<>>)} :
          /\ services' = r.services
          /\ initRet' = [op |-> "InitializeServicesFor", names |-> names,
                         attempted |-> r.attempted, err |-> r.err]
    /\ UNCHANGED <<initCfg, serviceNames, servicesToCollect, cpc, wpc, fetched,
                   called, mu, allEvents, ret, dbVars, retryVars, authVars,
                   rangeVars, popVars, clientVars>>

InitSpecInit ==
    /\ InitInit
    /\ CollectIdle /\ DbIdle /\ RetryIdle /\ AuthIdle /\ RangeIdle
    /\ PopIdle /\ ClientIdle

NextInit ==
    \/ InitializeServices
    \/ \E names \in SeqsUpTo(RequestedNames, MaxFilter) :
          InitializeServicesFor(names)

SpecInit == InitSpecInit /\ [][NextInit]_vars

(***************************************************************************)
(* Claims about CollectEvents (checked under SpecCollect).                 *)
(***************************************************************************)
Count(seq, e) == Cardinality({i \in 1..Len(seq) : seq[i] = e})

CollectorEvents == UNION {Range(l) : l \in UNION {EventLists(s) : s \in ServiceNames}}

Succeeded(s) == s \in servicesToCollect /\ fetched[s].err = Nil
Failed(s) == s \in servicesToCollect /\ fetched[s].err \notin {Nil, NoResult.err}

\* How often the successful services returned event e.
ReturnedBySuccessful(e) ==
    IF Succeeded(e.service) THEN Count(fetched[e.service].events, e) ELSE 0

\* C1: when CollectEvents has returned and at least one candidate's fetch
\* succeeded, the error is nil and the returned list holds every event
\* exactly as often as the successful services returned it (nothing lost,
\* nothing duplicated, nothing from a failed service), in every interleaving.
C1_PartialSuccessUnion ==
    (cpc = "returned" /\ \E s \in ServiceNames : Succeeded(s)) =>
        /\ ret.err = Nil
        /\ Len(ret.events) =
              Cardinality({<<s, i>> \in ServiceNames \X (1..MaxEvents) :
                             Succeeded(s) /\ i <= Len(fetched[s].events)})
        /\ \A e \in CollectorEvents : Count(ret.events, e) = ReturnedBySuccessful(e)

\* C1 witness: one service failed, the other returned two events, and the
\* call has returned.
C1_Witness ==
    /\ cpc = "returned"
    /\ \E s \in ServiceNames : Failed(s)
    /\ \E s \in ServiceNames : Succeeded(s) /\ Len(fetched[s].events) = 2
    /\ Len(ret.events) = 2

\* C2: when the candidate set is not empty and every candidate's fetch
\* failed, CollectEvents returns a non-nil error and no events.
C2_AllFailedReturnsError ==
    (/\ cpc = "returned"
     /\ servicesToCollect # {}
     /\ \A s \in servicesToCollect : Failed(s)) =>
        (ret.err # Nil /\ ret.events = <<>>)

\* C3: the returned list is in non-decreasing timestamp order, whatever the
\* order in which the workers appended and however each service ordered its
\* own events.
C3_ReturnedSorted ==
    (cpc = "returned" /\ ret.err = Nil) =>
        \A i \in 1..Len(ret.events) - 1 :
            ~After(ret.events[i].timestamp, ret.events[i + 1].timestamp)

\* C3 witness: both services answered, the accumulator was out of order in
\* more than one place, and the call has returned.
C3_Witness ==
    /\ cpc = "returned"
    /\ \A s \in ServiceNames : Succeeded(s) /\ Len(fetched[s].events) = 2
    /\ After(allEvents[1].timestamp, allEvents[2].timestamp)
    /\ After(allEvents[3].timestamp, allEvents[4].timestamp)
    /\ Len(ret.events) = 4

\* C4: with a non-empty filter, a client is invoked only if its name is in
\* the filter and initialized, never more than once, and when the call has
\* returned every such client was invoked exactly once; a filter that also
\* holds unknown or uninitialized names does not fail the call as long as
\* one of its names matches.
C4_FilterRespected ==
    Len(serviceNames) > 0 =>
        /\ \A n \in FilterNames :
              /\ called[n] <= 1
              /\ called[n] = 1 => (n \in Range(serviceNames) /\ n \in services)
        /\ cpc = "returned" =>
              \A n \in Range(serviceNames) \cap services : called[n] = 1
        /\ (cpc = "returned" /\ Range(serviceNames) \cap services # {}) =>
              ret.err = Nil

\* C4 witness: both clients are initialized, the filter names one of them and
\* an unknown name, and the call returned after invoking only the named one.
C4_Witness ==
    /\ cpc = "returned"
    /\ services = ServiceNames
    /\ \E n \in ServiceNames : Range(serviceNames) = {n, "jira"}
    /\ \E n \in ServiceNames : called[n] = 0
    /\ \E n \in ServiceNames : called[n] = 1
    /\ ret.err = Nil

\* The candidate set is empty: nothing is initialized, or no filter name is.
NoCandidate ==
    IF Len(serviceNames) = 0 THEN services = {}
    ELSE Range(serviceNames) \cap services = {}

\* C5: when the candidate set is empty CollectEvents returns a non-nil
\* error and nil events, and no client is invoked.
C5_NoServicesAvailable ==
    (cpc = "returned" /\ NoCandidate) =>
        /\ ret.err # Nil
        /\ ret.events = <<>>
        /\ \A n \in FilterNames : called[n] = 0

\* C5 witness: a client is initialized but the filter names only others, and
\* the call has returned.
C5_Witness ==
    /\ cpc = "returned"
    /\ services # {}
    /\ Len(serviceNames) > 0
    /\ NoCandidate

(***************************************************************************)
(* Claims about DatabaseManager (checked under SpecDB).                    *)
(***************************************************************************)
RowsOf(id) == {i \in 1..Len(eventsTable) : eventsTable[i].id = id}

\* The step in which a call of InsertEvent / InsertEvents returns.
TxReturns == tx.active /\ ~tx'.active

TablesUnchanged ==
    /\ eventsTable' = eventsTable
    /\ attachmentsTable' = attachmentsTable

C7_OneRowPerIdLastWriteWins ==
    /\ \A id \in DbEventIDs : Cardinality(RowsOf(id)) <= 1
    /\ \A i \in 1..Len(eventsTable) :
          /\ latest[eventsTable[i].id] # <<>>
          /\ ScanEvent(eventsTable[i]).service = latest[eventsTable[i].id][1].service
          /\ ScanEvent(eventsTable[i]).timestamp = latest[eventsTable[i].id][1].timestamp

\* C7 witness: a list with two events of one ID and different timestamps
\* was inserted over a stored row of that ID, and both IDs are stored.
C7_Witness ==
    /\ ~tx.active
    /\ dbRet.op = "InsertEvents"
    /\ dbRet.err = Nil
    /\ Len(dbRet.events) = 2
    /\ dbRet.events[1].id = dbRet.events[2].id
    /\ dbRet.events[1].timestamp # dbRet.events[2].timestamp
    /\ Len(eventsTable) = 2
    /\ eventsTable[1].id # dbRet.events[2].id
    /\ ScanEvent(eventsTable[2]).timestamp = dbRet.events[2].timestamp

\* C8: while a transaction is open nothing it writes reaches the tables, and
\* when the call returns an error (an event row, an attachment row or the
\* commit failed) both tables are what they were before the call.
C8_FailedBatchRolledBack ==
    [][(tx.active /\ (tx'.active \/ dbRet'.err # Nil)) => TablesUnchanged]_vars

\* C8 witness: InsertEvents failed on an attachment row after it had executed
\* an earlier event of the list, and the tables are still empty.
C8_Witness ==
    /\ ~tx.active
    /\ dbRet.op = "InsertEvents"
    /\ dbRet.err = "failed to insert attachment"
    /\ dbRet.n >= 1
    /\ eventsTable = <<>>
    /\ attachmentsTable = <<>>

\* C9: every event GetEvents returns lies within [startTime, endTime] as an
\* instant.
C9_GetEventsWithinBounds ==
    (dbRet.op = "GetEvents" /\ dbRet.err = Nil) =>
        \A i \in 1..Len(dbRet.events) :
            /\ dbRet.startTime.inst <= dbRet.events[i].timestamp.inst
            /\ dbRet.events[i].timestamp.inst <= dbRet.endTime.inst

\* C10: the list GetEvents returns is in non-decreasing order of the events'
\* instants.
C10_GetEventsOrderedByInstant ==
    (dbRet.op = "GetEvents" /\ dbRet.err = Nil) =>
        \A i \in 1..Len(dbRet.events) - 1 :
            dbRet.events[i].timestamp.inst <= dbRet.events[i + 1].timestamp.inst

\* C19: CollectEvents returns only when every worker has finished: each
\* candidate's fetch was called once and has returned, and its events are in
\* the accumulator or (on error) were discarded.  If the call waits forever,
\* some fetch never returns; and a worker whose fetch has returned finishes,
\* its events appended, even when another fetch never returns.
C19_JoinAll ==
    /\ []((cpc = "returned" /\ ret.err = Nil) =>
             \A s \in servicesToCollect :
                 /\ wpc[s] = "done"
                 /\ called[s] = 1
                 /\ mu # s
                 /\ Succeeded(s) =>
                        \A e \in Range(fetched[s].events) :
                            e \in Range(allEvents))
    /\ (<>[](cpc = "waiting")
           => <>[](\E s \in servicesToCollect : wpc[s] = "start"))
    /\ \A s \in ServiceNames :
           (wpc[s] = "fetched") ~>
               (wpc[s] = "done" /\ \A e \in Range(fetched[s].events) :
                                       e \in Range(allEvents))

\* Both services were candidates; github's worker has finished and its
\* events are appended while slack's fetch has not returned and the call is
\* still waiting.
C19_Witness ==
    /\ cpc = "waiting"
    /\ servicesToCollect = {"slack", "github"}
    /\ wpc["slack"] = "start"
    /\ wpc["github"] = "done"
    /\ Succeeded("github")
    /\ Len(allEvents) = 2

\* The workers that are between mu.Lock() and mu.Unlock().
InAppend == {s \in ServiceNames : wpc[s] \in {"locked", "appended"}}

\* C20: at most one worker at a time is between Lock and Unlock, the mutex
\* is held by exactly that worker (never by one whose fetch is in progress),
\* a worker that took the lock releases it, and a worker waiting for the
\* lock gets it.
C20_LockAroundAppendOnly ==
    /\ [](Cardinality(InAppend) <= 1)
    /\ [](\A s \in ServiceNames : mu = s <=> s \in InAppend)
    /\ \A s \in ServiceNames : (mu = s) ~> (mu # s)
    /\ \A s \in ServiceNames : (wpc[s] = "fetched") ~> (mu = s)

\* One worker holds the lock, its events appended, while the other has its
\* fetch result and waits for the lock.
C20_Witness ==
    /\ mu = "slack"
    /\ wpc["slack"] = "appended"
    /\ wpc["github"] = "fetched"
    /\ Len(fetched["github"].events) = 2
    /\ allEvents = fetched["slack"].events
    /\ Len(allEvents) = 1

\* C18: DeleteOldEvents removes exactly the event rows whose timestamp is an
\* instant before the cutoff (now - olderThan), whatever offset the row was
\* stored with, keeps every other row as it is and leaves the attachments
\* table unchanged.
C18_DeleteOldEventsByInstant ==
    [][\A c \in Instants : DeleteOldEvents(c, FALSE) =>
          /\ eventsTable' = SelectSeq(eventsTable,
                 LAMBDA row : ~(ParseTimestamp(row.timestamp).inst < c))
          /\ attachmentsTable' = attachmentsTable]_vars

(***************************************************************************)
(* The Slack retry layer: RetryTransport.RoundTrip retries an HTTP request *)
(* on transport errors and on 429 responses; RetryableAPICall retries an   *)
(* API call on the SDK's RateLimitedError.                                 *)
(***************************************************************************)
\* NewRetryableSlackClient: a maxRetries argument <= 0 becomes the default.
NewRetryableSlackClient(arg) == IF arg <= 0 THEN DefaultMaxRetries ELSE arg

StatusTooManyRequests == 429
\* Retry-After header values: absent, whole seconds, an HTTP date (given by
\* the seconds from now until it), or text that is neither a number nor an
\* HTTP date.
NoHeader == [kind |-> "absent"]
Seconds(n) == [kind |-> "seconds", n |-> n]
HttpDate(until) == [kind |-> "date", until |-> until]
RetryAfterHeaders ==
    {NoHeader, [kind |-> "text"]} \cup {Seconds(n) : n \in {0, 301}}
        \cup {HttpDate(u) : u \in {-3600, 86400}}
TransportErrors == {"timeout", "reset"}

\* What one call of rt.Transport.RoundTrip returns: (resp, nil) or (nil, err).
Response(status, header) ==
    [kind |-> "resp", status |-> status, retryAfter |-> header]
TransportError(e) == [kind |-> "err", err |-> e]
TransportOutcomes ==
    {Response(200, NoHeader), Response(500, NoHeader)}
        \cup {Response(StatusTooManyRequests, h) : h \in RetryAfterHeaders}
        \cup {TransportError(e) : e \in TransportErrors}

\* getRetryAfterDelay, in seconds.
getRetryAfterDelay(resp) ==
    LET h == resp.retryAfter IN
    IF h = NoHeader THEN 60
    ELSE IF h.kind = "seconds"
         THEN (IF h.n > 300 THEN 300 ELSE IF h.n < 1 THEN 1 ELSE h.n)
    ELSE IF h.kind = "date"
         THEN (IF h.until > 300 THEN 300 ELSE IF h.until < 1 THEN 1 ELSE h.until)
    ELSE 60

\* The error values: nil, and fmt.Errorf("... failed after %d attempts: %w",
\* n, err).
NilError == [kind |-> "nil"]
Running == [kind |-> "running"]
NoResponse == [kind |-> "none"]
Errorf(n, err) == [kind |-> "wrapped", attempts |-> n, wraps |-> err]

InitRetry ==
    /\ maxRetries \in {NewRetryableSlackClient(a) : a \in -1..MaxRetriesArg}
    /\ rt = NoCall
    /\ rtRet = [op |-> "none"]
    /\ api = NoCall
    /\ apiRet = [op |-> "none"]

\* One call of the retry layer is followed at a time; the locals and the
\* result of an earlier call are gone when the next call starts.
NoCallRunning == rt.pc # "loop" /\ api.pc # "loop"

\* The caller's *http.Request.  Body is a reader shared by reference: none
\* (http.NoBody), or len bytes of which read have been taken.  The Slack
\* client posts forms from an in-memory reader, whose Close does nothing.
NoBody == [len |-> 0, read |-> 0]
Requests ==
    {[method |-> "GET", url |-> "/api/auth.test", header |-> {"Authorization"},
      body |-> NoBody]}
        \cup {[method |-> "POST", url |-> "/api/search.messages",
                header |-> {"Authorization", "Content-Type"},
                body |-> [len |-> n, read |-> 0]] : n \in 1..MaxBodyLen}

\* http.Request.Clone: method, URL and header are copied, Body is the same
\* reader.
Clone(req) ==
    [method |-> req.method, url |-> req.url, header |-> req.header,
     body |-> req.body]

\* What the transport may do with the request it is handed: it writes its
\* own header into it and takes bytes from the Body, none (the attempt
\* failed before the request was written) or all that are left.
BytesTaken(body) == {0, body.len - body.read}
TransportSees(reqClone) ==
    [method |-> reqClone.method, url |-> reqClone.url,
     header |-> reqClone.header \cup {"User-Agent"},
     available |-> reqClone.body.len - reqClone.body.read]

\* RoundTrip's locals after rt.Transport.RoundTrip(reqClone) took n bytes:
\* the request as sent is logged, the shared reader has moved on.
AfterTransport(n) ==
    [rt EXCEPT !.sent = Append(@, TransportSees(Clone(rt.req))),
               !.req.body.read = @ + n]

\* RoundTrip is called: the loop starts with attempt 0.
RoundTripBegin(req) ==
    /\ NoCallRunning
    /\ rt' = [pc |-> "loop", attempt |-> 0, log |-> <<>>, slept |-> <<>>,
              req |-> req, given |-> req, sent |-> <<>>]
    /\ rtRet' = [op |-> "RoundTrip", resp |-> NoResponse, err |-> Running]
    /\ api' = NoCall
    /\ apiRet' = [op |-> "none"]
    /\ UNCHANGED <<maxRetries, outsideRetry>>

RoundTripReturns(r, o, resp, err) ==
    /\ rt' = [r EXCEPT !.pc = "returned", !.log = Append(@, o)]
    /\ rtRet' = [op |-> "RoundTrip", resp |-> resp, err |-> err]

RoundTripRetries(r, o, delay) ==
    /\ rt' = [r EXCEPT !.attempt = @ + 1, !.log = Append(@, o),
                       !.slept = Append(@, delay)]
    /\ UNCHANGED rtRet

\* A variant that also retries the responses with a server error status.
RoundTripAttemptRetryServerErrors(o) ==
    /\ rt.pc = "loop"
    /\ rt.attempt <= maxRetries
    /\ \E n \in BytesTaken(rt.req.body) : \E r \in {AfterTransport(n)} :
       IF o.kind = "err"
       THEN IF rt.attempt = maxRetries
            THEN RoundTripReturns(r, o, NoResponse, Errorf(maxRetries + 1, o.err))
            ELSE RoundTripRetries(r, o, rt.attempt + 1)
       ELSE IF o.status < 500 /\ o.status # StatusTooManyRequests
            THEN RoundTripReturns(r, o, o, NilError)
            ELSE IF rt.attempt = maxRetries
                 THEN RoundTripReturns(r, o, o, NilError)
                 ELSE RoundTripRetries(r, o, getRetryAfterDelay(o))
    /\ UNCHANGED <<maxRetries, api, apiRet, outsideRetry>>

\* One iteration of RoundTrip's loop: the request is cloned and handed to
\* the transport; o is what the transport returned.  The return after the
\* loop is not reached: with MaxRetries >= 1 the iteration with attempt =
\* MaxRetries returns.
RoundTripAttempt(o) ==
    /\ rt.pc = "loop"
    /\ rt.attempt <= maxRetries
    /\ \E n \in BytesTaken(rt.req.body) : \E r \in {AfterTransport(n)} :
       IF o.kind = "err"
       THEN IF rt.attempt = maxRetries
            THEN RoundTripReturns(r, o, NoResponse, Errorf(maxRetries + 1, o.err))
            ELSE RoundTripRetries(r, o, rt.attempt + 1)
       ELSE IF o.status # StatusTooManyRequests
            THEN RoundTripReturns(r, o, o, NilError)
            ELSE IF rt.attempt = maxRetries
                 THEN RoundTripReturns(r, o, o, NilError)
                 ELSE RoundTripRetries(r, o, getRetryAfterDelay(o))
    /\ UNCHANGED <<maxRetries, api, apiRet, outsideRetry>>

\* What apiCall returns: nil, a *slack.RateLimitedError or another error.
RateLimitedError(retryAfter) == [kind |-> "ratelimited", retryAfter |-> retryAfter]
OtherError(e) == [kind |-> "other", err |-> e]
APISuccess == [kind |-> "nil"]
APIOutcomes ==
    {APISuccess} \cup {RateLimitedError(r) : r \in {0, 2, 301}}
          \cup {OtherError(e) : e \in {"channel_not_found"}}

\* RetryableAPICall is called.
RetryableAPICallBegin ==
    /\ NoCallRunning
    /\ api' = [pc |-> "loop", attempt |-> 0, lastErr |-> NilError, log |-> <<>>,
               slept |-> <<>>]
    /\ apiRet' = [op |-> "RetryableAPICall", err |-> Running]
    /\ rt' = NoCall
    /\ rtRet' = [op |-> "none"]
    /\ UNCHANGED <<maxRetries, outsideRetry>>

\* One iteration of RetryableAPICall's loop; o is what apiCall returned.  A
\* rate limit before the last attempt sleeps and continues; anything else
\* leaves the loop, and an error is returned wrapped.
RetryableAPICallAttempt(o) ==
    /\ api.pc = "loop"
    /\ api.attempt <= maxRetries
    /\ IF o = APISuccess
       THEN /\ api' = [api EXCEPT !.pc = "returned", !.log = Append(@, o)]
            /\ apiRet' = [op |-> "RetryableAPICall", err |-> NilError]
       ELSE IF o.kind = "ratelimited" /\ api.attempt < maxRetries
            THEN /\ api' = [api EXCEPT !.attempt = @ + 1, !.lastErr = o,
                                       !.log = Append(@, o),
                                       !.slept = Append(@,
                                           IF o.retryAfter > 300 THEN 300
                                           ELSE o.retryAfter)]
                 /\ UNCHANGED apiRet
            ELSE /\ api' = [api EXCEPT !.pc = "returned", !.lastErr = o,
                                       !.log = Append(@, o)]
                 /\ apiRet' = [op |-> "RetryableAPICall",
                               err |-> Errorf(maxRetries + 1, o)]
    /\ UNCHANGED <<maxRetries, rt, rtRet, outsideRetry>>

InitSpecRetry ==
    /\ InitRetry
    /\ CollectIdle /\ DbIdle /\ AuthIdle /\ RangeIdle /\ PopIdle /\ InitIdle /\ ClientIdle

NextRetry ==
    \/ \E req \in Requests : RoundTripBegin(req)
    \/ \E o \in TransportOutcomes : RoundTripAttempt(o)
    \/ RetryableAPICallBegin
    \/ \E o \in APIOutcomes : RetryableAPICallAttempt(o)

SpecRetry == InitSpecRetry /\ [][NextRetry]_vars

\* The transport and the API call return, so a started iteration completes.
FairRetry ==
    /\ WF_vars(\E o \in TransportOutcomes : RoundTripAttempt(o))
    /\ WF_vars(\E o \in APIOutcomes : RetryableAPICallAttempt(o))

SpecRetryFair == SpecRetry /\ FairRetry

\* The attempts of a log that did not produce a usable response.
IsFailure(o) == o.kind = "err" \/ o.status = StatusTooManyRequests
FirstUsable(log) ==
    IF \E k \in 1..Len(log) : ~IsFailure(log[k])
    THEN CHOOSE k \in 1..Len(log) :
             /\ ~IsFailure(log[k])
             /\ \A j \in 1..(k - 1) : IsFailure(log[j])
    ELSE 0

\* C11: RoundTrip makes at most MaxRetries+1 attempts, a started call
\* returns, and when attempt k is the first with a response other than 429
\* it returns that response and a nil error after exactly k attempts.
C11_RoundTripBoundedAndReturnsFirstUsable ==
    /\ [](rt.pc # "idle" => Len(rt.log) <= maxRetries + 1)
    /\ []((rt.pc # "idle" /\ FirstUsable(rt.log) > 0)
             => /\ rt.pc = "returned"
                /\ Len(rt.log) = FirstUsable(rt.log)
                /\ rtRet.resp = rt.log[Len(rt.log)]
                /\ rtRet.err = NilError)
    /\ ((rt.pc = "loop") ~> (rt.pc = "returned"))

\* RoundTrip returned the response of its second attempt, the first attempt
\* having been answered with 429.
C11_Witness ==
    /\ rt.pc = "returned"
    /\ Len(rt.log) = 2
    /\ rt.log[1] = Response(StatusTooManyRequests, Seconds(0))
    /\ rt.slept = <<1>>
    /\ rtRet.err = NilError
    /\ rtRet.resp = Response(200, NoHeader)

\* C12: when every attempt failed and the attempts are used up, the call
\* returns a non-nil error that wraps the last failure, for RoundTrip and
\* for RetryableAPICall.
C12_ExhaustedReturnsTerminalError ==
    /\ (/\ rt.pc = "returned"
        /\ Len(rt.log) = maxRetries + 1
        /\ \A k \in 1..Len(rt.log) : IsFailure(rt.log[k]))
           => /\ rtRet.err # NilError
              /\ rt.log[Len(rt.log)].kind = "err"
                    => rtRet.err.wraps = rt.log[Len(rt.log)].err
    /\ (/\ api.pc = "returned"
        /\ \A k \in 1..Len(api.log) : api.log[k] # APISuccess)
           => /\ apiRet.err # NilError
              /\ apiRet.err.wraps = api.log[Len(api.log)]

(***************************************************************************)
(* The token store (internal/auth/token_store.go): a JSON file holding a   *)
(* list of StoredToken, the credential of each encrypted with AES-GCM.     *)
(***************************************************************************)
TokenServices == {"slack", "calendar"}
\* a nil *time.Time
NilTime == -1

\* The credential handed to StoreToken.
Credential(access, refresh, expiresAt, scopes) ==
    [access_token |-> access, refresh_token |-> refresh,
     expires_at |-> expiresAt, scopes |-> scopes]

\* json.Marshal of the credential map: a nil expiry becomes null, a time its
\* RFC 3339 text.
JsonTime(t) ==
    IF t = NilTime THEN [null |-> TRUE, rfc3339 |-> 0]
    ELSE [null |-> FALSE, rfc3339 |-> t]
Marshal(c) ==
    [access_token |-> c.access_token, refresh_token |-> c.refresh_token,
     expires_at |-> JsonTime(c.expires_at), scopes |-> c.scopes]
\* encrypt / decrypt under the store's key, and the base64 text of the result
Encrypt(data) == [sealed |-> data]
Decrypt(cipher) == cipher.sealed
EncodeToString(bytes) == [base64 |-> bytes]
DecodeString(text) == text.base64

\* GetToken's reading of the decrypted JSON.
ParseTime(j) == IF j.null THEN NilTime ELSE j.rfc3339
Unmarshal(j) ==
    [access_token |-> j.access_token, refresh_token |-> j.refresh_token,
     expires_at |-> ParseTime(j.expires_at), scopes |-> j.scopes]

StoredToken(serviceName, c, createdAt) ==
    [ServiceName |-> serviceName, TokenType |-> "access",
     CreatedAt |-> createdAt, LastRefresh |-> NilTime,
     EncryptedData |-> EncodeToString(Encrypt(Marshal(c)))]

\* The index of the first token of the service, or 0.
FirstIndex(tokens, serviceName) ==
    IF \E i \in 1..Len(tokens) : tokens[i].ServiceName = serviceName
    THEN CHOOSE i \in 1..Len(tokens) :
             /\ tokens[i].ServiceName = serviceName
             /\ \A j \in 1..(i - 1) : tokens[j].ServiceName # serviceName
    ELSE 0

saveTokens(tokens) == [exists |-> TRUE, tokens |-> tokens]

\* A variant that appends the new token whether or not the service has one.
StoreTokenAlwaysAppend(file, serviceName, c, t) ==
    [file |-> saveTokens(Append(file.tokens, StoredToken(serviceName, c, t))),
     err |-> Nil]

\* StoreToken: a missing file counts as an empty list; the service's token is
\* replaced where it stands, or appended.
StoreToken(file, serviceName, c, t) ==
    LET i == FirstIndex(file.tokens, serviceName)
        storedToken == StoredToken(serviceName, c, t)
    IN  [file |-> saveTokens(IF i > 0
                             THEN [file.tokens EXCEPT ![i] = storedToken]
                             ELSE Append(file.tokens, storedToken)),
         err |-> Nil]

\* DeleteToken: fails when the file cannot be read; otherwise keeps the tokens
\* of the other services.
DeleteToken(file, serviceName) ==
    IF ~file.exists THEN [file |-> file, err |-> "load failed"]
    ELSE [file |-> saveTokens(SelectSeq(file.tokens,
                       LAMBDA token : token.ServiceName # serviceName)),
          err |-> Nil]

\* UpdateRefreshTime: sets LastRefresh of the service's token, if there is one.
UpdateRefreshTime(file, serviceName, t) ==
    IF ~file.exists THEN [file |-> file, err |-> "load failed"]
    ELSE LET i == FirstIndex(file.tokens, serviceName)
         IN  [file |-> saveTokens(IF i > 0
                                  THEN [file.tokens EXCEPT ![i].LastRefresh = t]
                                  ELSE file.tokens),
              err |-> Nil]

\* GetToken: the service's token with its credential decrypted.
NoToken == [found |-> FALSE]
GetToken(file, serviceName) ==
    LET i == FirstIndex(file.tokens, serviceName) IN
    IF ~file.exists \/ i = 0 THEN NoToken
    ELSE [found |-> TRUE,
          ServiceName |-> file.tokens[i].ServiceName,
          CreatedAt |-> file.tokens[i].CreatedAt,
          LastRefresh |-> file.tokens[i].LastRefresh,
          credential |-> Unmarshal(Decrypt(DecodeString(
                             file.tokens[i].EncryptedData)))]

\* A call whose file access fails (the file cannot be read or written)
\* returns the error and leaves the file as it is.
IoFailed(file) == [file |-> file, err |-> "io failed"]

\* The credentials handed to the store directly.
StoreCredentials ==
    {Credential("a1", "", NilTime, <<"read">>),
     Credential("a2", "r1", 60, <<"read">>)}

InitStore ==
    /\ now = 0
    /\ tokenFile = NoFile
    /\ storeRet = [op |-> "none"]
    /\ mgr = NoManager
    /\ authRet = [op |-> "none"]

\* time passes
Tick ==
    /\ now < MaxNow
    /\ now' = now + 1
    /\ UNCHANGED <<tokenFile, storeRet, mgr, authRet, outsideAuth>>

StoreTokenCall(serviceName, c, ioFails) ==
    /\ mgr = NoManager
    /\ LET r == IF ioFails THEN IoFailed(tokenFile)
                ELSE StoreToken(tokenFile, serviceName, c, now)
       IN  /\ tokenFile' = r.file
           /\ storeRet' = [op |-> "StoreToken", err |-> r.err]
    /\ UNCHANGED <<now, mgr, authRet, outsideAuth>>

DeleteTokenCall(serviceName, ioFails) ==
    /\ mgr = NoManager
    /\ LET r == IF ioFails THEN IoFailed(tokenFile)
                ELSE DeleteToken(tokenFile, serviceName)
       IN  /\ tokenFile' = r.file
           /\ storeRet' = [op |-> "DeleteToken", err |-> r.err]
    /\ UNCHANGED <<now, mgr, authRet, outsideAuth>>

UpdateRefreshTimeCall(serviceName, ioFails) ==
    /\ mgr = NoManager
    /\ LET r == IF ioFails THEN IoFailed(tokenFile)
                ELSE UpdateRefreshTime(tokenFile, serviceName, now)
       IN  /\ tokenFile' = r.file
           /\ storeRet' = [op |-> "UpdateRefreshTime", err |-> r.err]
    /\ UNCHANGED <<now, mgr, authRet, outsideAuth>>

InitSpecStore ==
    /\ InitStore
    /\ CollectIdle /\ DbIdle /\ RetryIdle /\ RangeIdle /\ PopIdle
    /\ InitIdle /\ ClientIdle

NextStore ==
    \/ Tick
    \/ \E sn \in TokenServices : \E c \in StoreCredentials :
           \E ioFails \in BOOLEAN : StoreTokenCall(sn, c, ioFails)
    \/ \E sn \in TokenServices : \E ioFails \in BOOLEAN :
           DeleteTokenCall(sn, ioFails)
    \/ \E sn \in TokenServices : \E ioFails \in BOOLEAN :
           UpdateRefreshTimeCall(sn, ioFails)

SpecStore == InitSpecStore /\ [][NextStore]_vars

\* The stored tokens of one service.
TokensOf(file, serviceName) ==
    {file.tokens[i] : i \in {j \in 1..Len(file.tokens) :
                                 file.tokens[j].ServiceName = serviceName}}
OthersUnchanged(serviceName) ==
    \A other \in TokenServices \ {serviceName} :
        TokensOf(tokenFile', other) = TokensOf(tokenFile, other)

\* C13: the store holds at most one token per service name; StoreToken
\* replaces the service's token and DeleteToken removes it, and both leave
\* the tokens of the other services as they were.
C13_OneTokenPerService ==
    /\ [](\A i, j \in 1..Len(tokenFile.tokens) :
             tokenFile.tokens[i].ServiceName = tokenFile.tokens[j].ServiceName
                 => i = j)
    /\ [][\A sn \in TokenServices :
             /\ \A c \in StoreCredentials : StoreTokenCall(sn, c, FALSE) =>
                    /\ OthersUnchanged(sn)
                    /\ TokensOf(tokenFile', sn) = {StoredToken(sn, c, now)}
             /\ DeleteTokenCall(sn, FALSE) =>
                    /\ OthersUnchanged(sn)
                    /\ TokensOf(tokenFile', sn) = {}
             /\ UpdateRefreshTimeCall(sn, FALSE) => OthersUnchanged(sn)]_vars

\* A service's token was replaced by a second StoreToken while another
\* service has a token with a refresh time.
C13_Witness ==
    /\ storeRet = [op |-> "StoreToken", err |-> Nil]
    /\ Len(tokenFile.tokens) = 2
    /\ GetToken(tokenFile, "slack").CreatedAt = 1
    /\ GetToken(tokenFile, "slack").credential.access_token = "a2"
    /\ GetToken(tokenFile, "calendar").LastRefresh = 0
    /\ tokenFile.tokens[1].ServiceName = "slack"


(***************************************************************************)
(* The auth managers (internal/auth): SlackAuthManager and                 *)
(* GitHubAuthManager, which differ in names only, and CalendarAuthManager  *)
(* in its OAuth mode.  One manager is followed; every call is one step.    *)
(***************************************************************************)
\* ShouldRefresh: 5*time.Minute
LeadTime == 5

SimpleManagers == {"slack", "github"}
ManagerKinds == SimpleManagers \cup {"calendar"}

\* The scopes each manager hands to StoreToken.
ScopesOf(kind) ==
    IF kind = "slack" THEN <<"chat:write", "channels:read">>
    ELSE IF kind = "github" THEN <<"repo", "user">>
    ELSE <<"https://www.googleapis.com/auth/calendar.readonly">>

\* AuthConfig and the AuthStatus NewBaseAuthManager starts with.
AuthConfigs(kind) ==
    [AccessToken : {"", "tok"}, RefreshToken : {"", "r1"},
     TokenExpiresAt : {NilTime, 0, LeadTime},
     AutoRefresh : IF kind = "calendar" THEN BOOLEAN ELSE {FALSE}]
NewBaseAuthManager(kind, config, hasClient) ==
    [kind |-> kind, config |-> config, hasClient |-> hasClient,
     status |-> [IsValid |-> FALSE, LastChecked |-> 0, ErrorMessage |-> "",
                 ExpiresAt |-> NilTime]]

\* BaseAuthManager.IsTokenExpired and UpdateStatus.
IsTokenExpired(m, t) ==
    m.config.TokenExpiresAt # NilTime /\ t > m.config.TokenExpiresAt
UpdateStatus(m, t, isValid, errorMessage) ==
    [m EXCEPT !.status = [IsValid |-> isValid, LastChecked |-> t,
                          ErrorMessage |-> errorMessage,
                          ExpiresAt |-> m.config.TokenExpiresAt]]

\* What the remote token check does: accepts the token, rejects it, cannot be
\* reached, answers with a body that does not decode, or the request cannot
\* be built.  ValidateSlackToken / ValidateGitHubToken / ValidateGoogleToken
\* turn that into a status, or an error.
RemoteOutcomes == {"ok", "rejected", "network", "undecodable", "norequest"}
ValidateRemote(remote) ==
    IF remote = "norequest"
    THEN [err |-> "request failed", IsValid |-> FALSE, ErrorMessage |-> ""]
    ELSE [err |-> Nil, IsValid |-> remote = "ok",
          ErrorMessage |-> IF remote = "ok" THEN ""
                           ELSE IF remote = "rejected" THEN "API error"
                           ELSE IF remote = "network" THEN "network error"
                           ELSE "response not decodable"]

\* The credential a manager stores: its config's tokens and expiry.
ConfigCredential(m) ==
    Credential(m.config.AccessToken, m.config.RefreshToken,
               m.config.TokenExpiresAt, ScopesOf(m.kind))

\* A store call made by a manager: its error is only logged.
StoreFor(m, file, t, ioFails) ==
    IF ioFails THEN file
    ELSE StoreToken(file, m.kind, ConfigCredential(m), t).file
RefreshTimeFor(m, file, t, ioFails) ==
    IF ioFails THEN file
    ELSE UpdateRefreshTime(file, m.kind, t).file

\* What the refresh-grant exchange with the token endpoint does.
ExchangeOutcomes ==
    {[kind |-> k, access_token |-> "", refresh_token |-> "", expires_in |-> 0]
         : k \in {"transport", "status", "undecodable"}}
    \cup [kind : {"ok"}, access_token : {"new"}, refresh_token : {"", "r2"},
          expires_in : {0, 60}]

\* CalendarAuthManager.RefreshToken: the manager and the store file after
\* the call, and the error returned.
RefreshToken(m, file, t, exch, storeFails, updateFails) ==
    IF m.config.RefreshToken = ""
    THEN [mgr |-> m, file |-> file, err |-> "no refresh token"]
    ELSE IF ~m.hasClient
    THEN [mgr |-> m, file |-> file, err |-> "no client credentials"]
    ELSE IF exch.kind # "ok"
    THEN [mgr |-> m, file |-> file, err |-> exch.kind]
    ELSE LET c1 == [m.config EXCEPT
                       !.AccessToken = exch.access_token,
                       !.RefreshToken = IF exch.refresh_token # ""
                                        THEN exch.refresh_token ELSE @,
                       !.TokenExpiresAt = IF exch.expires_in > 0
                                          THEN t + exch.expires_in ELSE @]
             m1 == [m EXCEPT !.config = c1]
             f1 == StoreFor(m1, file, t, storeFails)
             f2 == RefreshTimeFor(m1, f1, t, updateFails)
         IN  [mgr |-> UpdateStatus(m1, t, TRUE, ""), file |-> f2, err |-> Nil]

\* ShouldRefresh of the three managers.
ShouldRefresh(m, t) ==
    IF m.kind = "calendar" /\ m.config.TokenExpiresAt # NilTime
    THEN m.config.TokenExpiresAt - t < LeadTime
    ELSE ~m.status.IsValid /\ m.config.RefreshToken # ""

\* The last part of every ValidateToken: ask the remote service, update
\* the status, store the credential when the result is valid.
ValidateAgainstRemote(m, file, t, remote, ioFails) ==
    LET v == ValidateRemote(remote) IN
    IF v.err # Nil
    THEN [mgr |-> UpdateStatus(m, t, FALSE, "validation error"),
          file |-> file, err |-> v.err]
    ELSE LET m1 == UpdateStatus(m, t, v.IsValid, v.ErrorMessage)
         IN  [mgr |-> m1,
              file |-> IF v.IsValid THEN StoreFor(m1, file, t, ioFails)
                       ELSE file,
              err |-> Nil]

\* SlackAuthManager.ValidateToken and GitHubAuthManager.ValidateToken.
SimpleValidate(m, file, t, remote, ioFails) ==
    IF m.config.AccessToken = ""
    THEN [mgr |-> UpdateStatus(m, t, FALSE, "no access token"),
          file |-> file, err |-> Nil]
    ELSE IF IsTokenExpired(m, t)
    THEN [mgr |-> UpdateStatus(m, t, FALSE, "token expired"),
          file |-> file, err |-> Nil]
    ELSE ValidateAgainstRemote(m, file, t, remote, ioFails)

\* CalendarAuthManager.ValidateToken: an expired token is refreshed first
\* when AutoRefresh is set and there is a refresh token.
CalendarValidate(m, file, t, remote, exch, ioFails) ==
    IF m.config.AccessToken = ""
    THEN [mgr |-> UpdateStatus(m, t, FALSE, "no access token"),
          file |-> file, err |-> Nil]
    ELSE IF IsTokenExpired(m, t)
    THEN IF m.config.AutoRefresh /\ m.config.RefreshToken # ""
         THEN LET r == RefreshToken(m, file, t, exch, ioFails, ioFails)
              IN  IF r.err # Nil
                  THEN [mgr |-> UpdateStatus(m, t, FALSE, "refresh failed"),
                        file |-> file, err |-> Nil]
                  ELSE ValidateAgainstRemote(r.mgr, r.file, t, remote, ioFails)
         ELSE [mgr |-> UpdateStatus(m, t, FALSE, "token expired"),
               file |-> file, err |-> Nil]
    ELSE ValidateAgainstRemote(m, file, t, remote, ioFails)

InitAuth ==
    /\ now = 0
    /\ tokenFile = NoFile
    /\ storeRet = [op |-> "none"]
    /\ mgr \in {NewBaseAuthManager(k, c, h) :
                    k \in ManagerKinds, c \in AuthConfigs("calendar"),
                    h \in BOOLEAN}
    /\ mgr.kind \in SimpleManagers => ~mgr.config.AutoRefresh /\ ~mgr.hasClient
    /\ authRet = [op |-> "none"]

\* time passes
AuthTick ==
    /\ mgr # NoManager
    /\ now < MaxNow
    /\ now' = now + 1
    /\ UNCHANGED <<tokenFile, storeRet, mgr, authRet, outsideAuth>>

\* ValidateToken of the Slack or GitHub manager.  The status it returns is
\* the manager's own (GetAuthStatus hands out the pointer).
SimpleValidateToken(remote, ioFails) ==
    /\ mgr.kind \in SimpleManagers
    /\ LET r == SimpleValidate(mgr, tokenFile, now, remote, ioFails)
       IN  /\ mgr' = r.mgr
           /\ tokenFile' = r.file
           /\ authRet' = [op |-> "ValidateToken", err |-> r.err]
    /\ UNCHANGED <<now, storeRet, outsideAuth>>

\* ValidateToken of the Calendar manager.
CalendarValidateToken(remote, exch, ioFails) ==
    /\ mgr.kind = "calendar"
    /\ LET r == CalendarValidate(mgr, tokenFile, now, remote, exch, ioFails)
       IN  /\ mgr' = r.mgr
           /\ tokenFile' = r.file
           /\ authRet' = [op |-> "ValidateToken", err |-> r.err]
    /\ UNCHANGED <<now, storeRet, outsideAuth>>

\* RefreshToken of the Slack or GitHub manager: never succeeds.
SimpleRefreshToken ==
    /\ mgr.kind \in SimpleManagers
    /\ authRet' = [op |-> "RefreshToken",
                   err |-> IF mgr.config.RefreshToken = ""
                           THEN "no refresh token"
                           ELSE "needs re-authentication"]
    /\ UNCHANGED <<now, tokenFile, storeRet, mgr, outsideAuth>>

\* RefreshToken of the Calendar manager.
CalendarRefreshToken(exch, storeFails, updateFails) ==
    /\ mgr.kind = "calendar"
    /\ LET r == RefreshToken(mgr, tokenFile, now, exch, storeFails, updateFails)
       IN  /\ mgr' = r.mgr
           /\ tokenFile' = r.file
           /\ authRet' = [op |-> "RefreshToken", err |-> r.err]
    /\ UNCHANGED <<now, storeRet, outsideAuth>>

\* ClearToken: empties the config and deletes the service's token.
ClearToken(ioFails) ==
    /\ mgr # NoManager
    /\ LET c1 == [mgr.config EXCEPT !.AccessToken = "", !.RefreshToken = "",
                                    !.TokenExpiresAt = NilTime]
           r == IF ioFails THEN IoFailed(tokenFile)
                ELSE DeleteToken(tokenFile, mgr.kind)
       IN  /\ mgr' = UpdateStatus([mgr EXCEPT !.config = c1], now, FALSE,
                                  "token cleared")
           /\ tokenFile' = r.file
           /\ authRet' = [op |-> "ClearToken", err |-> r.err]
    /\ UNCHANGED <<now, storeRet, outsideAuth>>

ShouldRefreshCall ==
    /\ mgr # NoManager
    /\ authRet' = [op |-> "ShouldRefresh", result |-> ShouldRefresh(mgr, now)]
    /\ UNCHANGED <<now, tokenFile, storeRet, mgr, outsideAuth>>

InitSpecAuth ==
    /\ InitAuth
    /\ CollectIdle /\ DbIdle /\ RetryIdle /\ RangeIdle /\ PopIdle
    /\ InitIdle /\ ClientIdle

NextAuth ==
    \/ AuthTick
    \/ \E remote \in RemoteOutcomes : \E ioFails \in BOOLEAN :
           SimpleValidateToken(remote, ioFails)
    \/ \E remote \in RemoteOutcomes : \E exch \in ExchangeOutcomes :
           \E ioFails \in BOOLEAN : CalendarValidateToken(remote, exch, ioFails)
    \/ SimpleRefreshToken
    \/ \E exch \in ExchangeOutcomes : \E storeFails, updateFails \in BOOLEAN :
           CalendarRefreshToken(exch, storeFails, updateFails)
    \/ \E ioFails \in BOOLEAN : ClearToken(ioFails)
    \/ ShouldRefreshCall

SpecAuth == InitSpecAuth /\ [][NextAuth]_vars

\* C14: after a successful Calendar RefreshToken the config holds the
\* response's access token (its refresh token and expiry when it carries
\* them), the store's "calendar" token decrypts to the config's credential
\* and has a LastRefresh, and the status is valid; a failed RefreshToken
\* returns an error and leaves config, status and store unchanged.
C14_RefreshTokenPersists ==
    [][\A exch \in ExchangeOutcomes : \A storeFails, updateFails \in BOOLEAN :
          CalendarRefreshToken(exch, storeFails, updateFails) =>
              IF authRet'.err = Nil
              THEN /\ exch.kind = "ok"
                   /\ mgr'.config.AccessToken = exch.access_token
                   /\ exch.refresh_token # ""
                          => mgr'.config.RefreshToken = exch.refresh_token
                   /\ exch.expires_in > 0
                          => mgr'.config.TokenExpiresAt = now + exch.expires_in
                   /\ mgr'.status.IsValid
                   /\ GetToken(tokenFile', "calendar").found
                   /\ GetToken(tokenFile', "calendar").credential
                          = ConfigCredential(mgr')
                   /\ GetToken(tokenFile', "calendar").LastRefresh # NilTime
              ELSE /\ mgr' = mgr
                   /\ tokenFile' = tokenFile]_vars

\* C15: ShouldRefresh of the Calendar manager returns true exactly when the
\* expiry is closer than the lead time of 5 minutes, or the last validation
\* failed and there is a refresh token (whatever the expiry).
C15_ShouldRefreshContract ==
    (authRet.op = "ShouldRefresh" /\ mgr.kind = "calendar") =>
        (authRet.result <=>
            \/ /\ mgr.config.TokenExpiresAt # NilTime
               /\ mgr.config.TokenExpiresAt - now < LeadTime
            \/ ~mgr.status.IsValid /\ mgr.config.RefreshToken # "")

\* C16: a ValidateToken whose result is not valid has a message and leaves
\* the token store unchanged; an empty or expired access token, a rejection
\* by the remote service or a network error gives such a result.
C16_InvalidLeavesStoreUnchanged ==
    [][(/\ \/ \E remote \in RemoteOutcomes : \E ioFails \in BOOLEAN :
                 SimpleValidateToken(remote, ioFails)
           \/ \E remote \in RemoteOutcomes : \E exch \in ExchangeOutcomes :
                 \E ioFails \in BOOLEAN :
                     CalendarValidateToken(remote, exch, ioFails)
        /\ authRet'.op = "ValidateToken")
          => /\ ~mgr'.status.IsValid
                   => /\ mgr'.status.ErrorMessage # ""
                      /\ tokenFile' = tokenFile
             /\ (mgr.config.AccessToken = "" \/ IsTokenExpired(mgr, now))
                   => ~mgr'.status.IsValid]_vars

(***************************************************************************)
(* ValidateTimeRange of the collector and of the TimezoneManager.  A       *)
(* time.Time is a wall clock reading with its zone offset, in hours.       *)
(***************************************************************************)
\* 365*24*time.Hour
YearHours == 365 * 24

Time(instant, offset) == [wall |-> instant + offset, off |-> offset]
Instant(t) == t.wall - t.off
\* t.In(location), t.After(u), t.Sub(u)
TimeIn(t, location) == Time(Instant(t), location)
TimeAfter(t, u) == Instant(t) > Instant(u)
TimeSub(t, u) == Instant(t) - Instant(u)

\* UTC and Asia/Tokyo
Locations == {0, 9}
RangeInstants ==
    (0..MaxRangeHour) \cup {YearHours + h : h \in 0..MaxRangeHour}
RangeTimes == {Time(i, z) : i \in RangeInstants, z \in Locations}

\* A variant that rejects a span of exactly one year.
CollectorValidateTimeRangeStrict(startTime, endTime, timeNow) ==
    IF TimeAfter(startTime, endTime) THEN "start after end"
    ELSE IF TimeAfter(endTime, timeNow) THEN "end in the future"
    ELSE IF TimeSub(endTime, startTime) >= YearHours THEN "range too large"
    ELSE Nil

\* EventCollector.ValidateTimeRange
CollectorValidateTimeRange(startTime, endTime, timeNow) ==
    IF TimeAfter(startTime, endTime) THEN "start after end"
    ELSE IF TimeAfter(endTime, timeNow) THEN "end in the future"
    ELSE IF TimeSub(endTime, startTime) > YearHours THEN "range too large"
    ELSE Nil

\* TimezoneManager.ValidateTimeRange
TimezoneValidateTimeRange(location, startTime, endTime, timeNow) ==
    LET start == TimeIn(startTime, location)
        end == TimeIn(endTime, location)
        nowIn == TimeIn(timeNow, location)
    IN  IF TimeAfter(start, end) THEN "start after end"
        ELSE IF TimeAfter(end, nowIn) THEN "end in the future"
        ELSE IF TimeSub(end, start) > YearHours THEN "range too large"
        ELSE Nil

InitRange ==
    /\ rangeIn \in [given : {TRUE}, startTime : RangeTimes,
                    endTime : RangeTimes, timeNow : RangeTimes,
                    location : Locations]
    /\ rangeRet = [ec |-> "pending", tm |-> "pending"]

CollectorValidateCall ==
    /\ rangeIn.given
    /\ rangeRet.ec = "pending"
    /\ rangeRet' = [rangeRet EXCEPT !.ec =
           CollectorValidateTimeRange(rangeIn.startTime, rangeIn.endTime,
                                      rangeIn.timeNow)]
    /\ UNCHANGED <<rangeIn, outsideRange>>

TimezoneValidateCall ==
    /\ rangeIn.given
    /\ rangeRet.tm = "pending"
    /\ rangeRet' = [rangeRet EXCEPT !.tm =
           TimezoneValidateTimeRange(rangeIn.location, rangeIn.startTime,
                                     rangeIn.endTime, rangeIn.timeNow)]
    /\ UNCHANGED <<rangeIn, outsideRange>>

InitSpecRange ==
    /\ InitRange
    /\ CollectIdle /\ DbIdle /\ RetryIdle /\ AuthIdle /\ PopIdle /\ InitIdle /\ ClientIdle

NextRange ==
    \/ CollectorValidateCall
    \/ TimezoneValidateCall

SpecRange == InitSpecRange /\ [][NextRange]_vars

(***************************************************************************)
(* The time window of the service clients.  Times are counted in seconds   *)
(* here; a time.Time is Time(instant, offset) as above, the offset in      *)
(* seconds.  What a remote API answers is not in the client's hands: for   *)
(* Slack and Calendar it is any list of items, for GitHub it is what the   *)
(* date query asks for.                                                    *)
(***************************************************************************)
HourSecs == 3600
DaySecs == 24 * HourSecs

\* The TimezoneManager's location: UTC or Asia/Tokyo.
ClientLocations == {0, 9 * HourSecs}

\* t.Hour() == 0 && t.Minute() == 0 && t.Second() == 0, in t's own zone
ZeroTimeOfDay(t) == t.wall % DaySecs = 0
\* t.Add(d)
TimeAdd(t, d) == [wall |-> t.wall + d, off |-> t.off]
\* t.Before(u)
TimeBefore(t, u) == Instant(t) < Instant(u)
\* t.Format("2006-01-02"): the day of the wall clock
FormatDate(t) == t.wall \div DaySecs

\* actualEndTime of the Slack and the Calendar client
ActualEndTime(endTime) ==
    IF ZeroTimeOfDay(endTime) THEN TimeAdd(endTime, DaySecs - 1) ELSE endTime

\* The bounds a caller passes: midnight or noon of a day, in the configured
\* location.
CallerTimes(location) ==
    {[wall |-> d * DaySecs + tod, off |-> location] :
        d \in 0..MaxDay, tod \in {0, 12 * HourSecs}}

\* The timestamps of the remote's items: on the days around the range, at
\* midnight, in the morning, at noon, in the evening and in the last second.
ItemTimes(location) ==
    {[wall |-> d * DaySecs + tod, off |-> location] :
        d \in 0..(MaxDay + 1),
        tod \in {0, 6 * HourSecs, 12 * HourSecs, 18 * HourSecs, DaySecs - 1}}

\* SlackClient.collectMessagesViaSearch: the matches are filtered by their
\* timestamp.
SlackCollect(matches, startTime, endTime) ==
    SelectSeq(matches, LAMBDA timestamp :
        ~(TimeBefore(timestamp, startTime)
            \/ TimeAfter(timestamp, ActualEndTime(endTime))))

\* CalendarClient.collectEventsFromCalendar: an item gives an event when its
\* time (created, updated or start) is after startTime and before
\* actualEndTime.
CalendarCollect(items, startTime, endTime) ==
    SelectSeq(items, LAMBDA t :
        TimeAfter(t, startTime) /\ TimeBefore(t, ActualEndTime(endTime)))

\* The GitHub Search API answering "created:startDate..endDate": the items
\* of those days (the API reads the dates in UTC).
SearchByDate(items, startDate, endDate) ==
    SelectSeq(items, LAMBDA t :
        /\ Instant(t) \div DaySecs >= startDate
        /\ Instant(t) \div DaySecs <= endDate)

\* GitHubClient.CollectGitHubEvents: the bounds go into the queries as the
\* dates of the configured location; every result becomes an event.
CollectGitHubEvents(location, items, startTime, endTime) ==
    LET startDate == FormatDate(TimeIn(startTime, location))
        endDate == FormatDate(TimeIn(endTime, location))
    IN SearchByDate(items, startDate, endDate)

\* The ranges a caller passes: startTime is not after endTime.
CallerRanges(location) ==
    {r \in CallerTimes(location) \X CallerTimes(location) :
        ~TimeAfter(r[1], r[2])}

InitClient ==
    /\ clientIn \in
          UNION {{[given |-> TRUE, location |-> z, startTime |-> r[1],
                   endTime |-> r[2], items |-> l] :
                     r \in CallerRanges(z),
                     l \in SeqsUpTo(ItemTimes(z), MaxItems)}
                 : z \in ClientLocations}
    /\ clientRet = [c \in {"slack", "github", "google_calendar"} |-> <<"pending">>]

Pending(c) == clientIn.given /\ clientRet[c] = <<"pending">>

SlackCollectEvents ==
    /\ Pending("slack")
    /\ clientRet' = [clientRet EXCEPT !["slack"] =
           <<SlackCollect(clientIn.items, clientIn.startTime, clientIn.endTime)>>]
    /\ UNCHANGED <<clientIn, outsideClient>>

GitHubCollectEvents ==
    /\ Pending("github")
    /\ clientRet' = [clientRet EXCEPT !["github"] =
           <<CollectGitHubEvents(clientIn.location, clientIn.items,
                                 clientIn.startTime, clientIn.endTime)>>]
    /\ UNCHANGED <<clientIn, outsideClient>>

CalendarCollectEvents ==
    /\ Pending("google_calendar")
    /\ clientRet' = [clientRet EXCEPT !["google_calendar"] =
           <<CalendarCollect(clientIn.items, clientIn.startTime,
                             clientIn.endTime)>>]
    /\ UNCHANGED <<clientIn, outsideClient>>

InitSpecClient ==
    /\ InitClient
    /\ CollectIdle /\ DbIdle /\ RetryIdle /\ AuthIdle /\ RangeIdle
    /\ PopIdle /\ InitIdle

NextClient ==
    \/ SlackCollectEvents
    \/ GitHubCollectEvents
    \/ CalendarCollectEvents

SpecClient == InitSpecClient /\ [][NextClient]_vars

\* The range is not one the contract accepts.
RangeRejected ==
    \/ Instant(rangeIn.startTime) > Instant(rangeIn.endTime)
    \/ Instant(rangeIn.endTime) > Instant(rangeIn.timeNow)
    \/ Instant(rangeIn.endTime) - Instant(rangeIn.startTime) > 365 * 24

\* C17: each ValidateTimeRange returns an error exactly when start > end, end
\* is after the current time, or end - start exceeds 365 days; the collector
\* and the TimezoneManager accept and reject the same inputs.
C17_ValidateTimeRangeContract ==
    /\ rangeRet.ec # "pending" => (rangeRet.ec # Nil <=> RangeRejected)
    /\ rangeRet.tm # "pending" => (rangeRet.tm # Nil <=> RangeRejected)
    /\ (rangeRet.ec # "pending" /\ rangeRet.tm # "pending")
           => (rangeRet.ec = Nil <=> rangeRet.tm = Nil)

\* Both accepted a span of exactly 365 days whose ends carry different zone
\* offsets and whose end is the current instant.
C17_Witness ==
    /\ rangeRet = [ec |-> Nil, tm |-> Nil]
    /\ Instant(rangeIn.endTime) - Instant(rangeIn.startTime) = 365 * 24
    /\ rangeIn.startTime.off # rangeIn.endTime.off
    /\ Instant(rangeIn.endTime) = Instant(rangeIn.timeNow)

(***************************************************************************)
(* Claims about populateAttachments.                                       *)
(***************************************************************************)
\* The stored attachment rows of one event, as attachments.
AttachmentsOf(table, id) ==
    LET rows == SelectSeq(table, LAMBDA r : r.event_id = id)
    IN [k \in 1..Len(rows) |-> [file_id |-> rows[k].file_id, title |-> rows[k].title]]

\* How often attachment a occurs in the list.
Occurrences(list, a) == Cardinality({k \in 1..Len(list) : list[k] = a})

SameAttachments(got, stored) ==
    /\ Len(got) = Len(stored)
    /\ \A k \in 1..Len(stored) :
          Occurrences(got, stored[k]) = Occurrences(stored, stored[k])

\* C21: whatever the number of events (below, at and across the chunk
\* boundaries), every event leaves populateAttachments with exactly the
\* stored rows of its own ID: none missing, none twice, none of another
\* event.
C21_ChunksKeepAttachments ==
    popOut # <<>> =>
        /\ Len(popOut[1]) = popIn.n
        /\ \A k \in 1..popIn.n :
              /\ popOut[1][k].id = k
              /\ SameAttachments(popOut[1][k].attachments,
                                 AttachmentsOf(popIn.table, k))

\* One more event than a chunk holds, the last event of the first chunk and
\* the first event of the second chunk each with a stored attachment.
C21_Witness ==
    /\ popOut # <<>>
    /\ popIn.n = chunkSize + 1
    /\ Len(popOut[1][chunkSize].attachments) = 1
    /\ Len(popOut[1][chunkSize + 1].attachments) = 1

(***************************************************************************)
(* Claims about the identity of attachment rows.                           *)
(***************************************************************************)
PairOf(row) == <<row.event_id, row.file_id>>

\* The (EventID, FileID) pairs an event's attachments are stored under.
PairsOf(e) ==
    {<<e.id, e.attachments[k].file_id>> :
        k \in {k \in 1..Len(e.attachments) : e.attachments[k].file_id # NoFileID}}

RowsOfPair(table, pair) == {k \in 1..Len(table) : PairOf(table[k]) = pair}

\* C22: event_attachments never holds two rows of the same (EventID,
\* FileID) pair, and a committed insert leaves exactly one row for each pair
\* it wrote and keeps the row of every other pair, whatever characters the
\* IDs hold.
C22_OneRowPerPair ==
    /\ [](\A pair \in AttachEventIDs \X AttachFileIDs :
             Cardinality(RowsOfPair(attachmentsTable, pair)) <= 1)
    /\ [][Commit(FALSE) =>
             LET written == UNION {PairsOf(tx.done[n]) : n \in 1..Len(tx.done)}
             IN /\ \A pair \in written :
                      Cardinality(RowsOfPair(attachmentsTable', pair)) = 1
                /\ \A k \in 1..Len(attachmentsTable) :
                      PairOf(attachmentsTable[k]) \notin written =>
                          RowsOfPair(attachmentsTable',
                                     PairOf(attachmentsTable[k])) # {}]_vars

(***************************************************************************)
(* Claims about the delays of the retry layer.                             *)
(***************************************************************************)
\* C23: every delay slept after a rate-limit signal lies between 1 and 300
\* seconds: in RoundTrip after a 429 response, whatever its Retry-After
\* header, and in RetryableAPICall after a *slack.RateLimitedError, whatever
\* its RetryAfter.
C23_RateLimitDelaysClamped ==
    /\ rt.pc # "idle" =>
          \A k \in 1..Len(rt.slept) :
              (rt.log[k].kind = "resp" /\ rt.log[k].status = StatusTooManyRequests)
                  => rt.slept[k] \in 1..300
    /\ api.pc # "idle" =>
          \A k \in 1..Len(api.slept) :
              api.log[k].kind = "ratelimited" => api.slept[k] \in 1..300

\* C24: an attempt that fails with an error other than a rate-limit signal,
\* before the last attempt, is followed by a sleep of n seconds (n the
\* 1-based number of the failed attempt) and by another attempt, in
\* RoundTrip and in RetryableAPICall.
C24_LinearBackoffOnOtherErrors ==
    /\ [][\A o \in TransportOutcomes :
             (o.kind = "err" /\ rt.pc = "loop" /\ rt.attempt < maxRetries
                 /\ RoundTripAttempt(o)) =>
                 /\ rt'.pc = "loop"
                 /\ rt'.attempt = rt.attempt + 1
                 /\ rt'.slept = Append(rt.slept, rt.attempt + 1)]_vars
    /\ [][\A o \in APIOutcomes :
             (o.kind = "other" /\ api.pc = "loop" /\ api.attempt < maxRetries
                 /\ RetryableAPICallAttempt(o)) =>
                 /\ api'.pc = "loop"
                 /\ api'.attempt = api.attempt + 1
                 /\ api'.slept = Append(api.slept, api.attempt + 1)]_vars

\* C25: every attempt of RoundTrip hands the transport the same request as
\* the first attempt (method, URL, headers, and body content available),
\* and the caller's request is after an attempt what it was before the
\* first.
C25_EveryAttemptSendsSameRequest ==
    rt.pc # "idle" =>
        /\ \A k \in 1..Len(rt.sent) : rt.sent[k] = rt.sent[1]
        /\ rt.req = rt.given

(***************************************************************************)
(* Claims about the initialization of the service clients.                 *)
(***************************************************************************)
\* A named service InitializeServicesFor cannot register.
CannotRegister(s) ==
    \/ s \notin Range(ClientNames)
    \/ ~initCfg.enabled[s]
    \/ ~HasToken(initCfg, s)
    \/ s \notin initCfg.builds

\* The position of the first name that cannot be registered, or 0.
FirstBad(ordered) ==
    IF \E k \in 1..Len(ordered) : CannotRegister(ordered[k])
    THEN CHOOSE k \in 1..Len(ordered) :
             /\ CannotRegister(ordered[k])
             /\ \A j \in 1..(k - 1) : ~CannotRegister(ordered[j])
    ELSE 0

C26_WitnessFor ==
    /\ initRet.op = "InitializeServicesFor"
    /\ initRet.err = "construction failed"
    /\ Len(initRet.names) = 2
    /\ Len(initRet.attempted) = 1
    /\ ~CannotRegister(prioritizeCalendarService(initRet.names)[2])

(***************************************************************************)
(* Claims about the clients' time window.                                  *)
(***************************************************************************)
\* The last instant of the window: end + 24h - 1s when end is a midnight,
\* else end.
EffectiveEnd(endTime) ==
    IF endTime.wall % DaySecs = 0 THEN Instant(endTime) + DaySecs - 1
    ELSE Instant(endTime)

\* C27: every event a client returns, the Slack, the GitHub and the
\* Calendar client alike, has a timestamp from startTime to the effective
\* end (endTime, or endTime + 24h - 1s when endTime has a zero time of day).
C27_EventsWithinExtendedWindow ==
    \A c \in {"slack", "github", "google_calendar"} :
        (clientIn.given /\ clientRet[c] # <<"pending">>) =>
            \A k \in 1..Len(clientRet[c][1]) :
                /\ Instant(clientRet[c][1][k]) >= Instant(clientIn.startTime)
                /\ Instant(clientRet[c][1][k]) <= EffectiveEnd(clientIn.endTime)

(***************************************************************************)
(* Claims about re-inserted events.                                        *)
(***************************************************************************)
\* The attachments of an event that insertAttachmentsTx writes: those with
\* a FileID.
WithFileID(attachments) ==
    SelectSeq(attachments, LAMBDA a : a.file_id # NoFileID)

\* C28: GetEvents returns every event with exactly the attachments of the
\* event last inserted under its ID: an attachment of an earlier insert that
\* the last insert does not carry is not returned (also when DeleteOldEvents
\* ran in between).
C28_AttachmentsLastWriteWins ==
    (dbRet.op = "GetEvents" /\ dbRet.err = Nil) =>
        \A k \in 1..Len(dbRet.events) :
            /\ latest[dbRet.events[k].id] # <<>>
            /\ SameAttachments(
                   dbRet.events[k].attachments,
                   WithFileID(latest[dbRet.events[k].id][1].attachments))

(***************************************************************************)
(* Claims about the stored token's times.                                  *)
(***************************************************************************)
\* GetTokenInfo's view of the stored Calendar token.
StoredCalendarToken(file) == GetToken(file, "calendar")

\* C29: a successful ValidateToken of the Calendar manager that does not
\* refresh leaves the stored token's times alone: LastRefresh, set by the
\* last successful RefreshToken, stays what it is, and CreatedAt stays the
\* time of the first store.
C29_ValidateKeepsStoredTimes ==
    [][(/\ \E remote \in RemoteOutcomes : \E exch \in ExchangeOutcomes :
              \E ioFails \in BOOLEAN :
                  CalendarValidateToken(remote, exch, ioFails)
        /\ ~IsTokenExpired(mgr, now)
        /\ authRet'.err = Nil
        /\ mgr'.status.IsValid
        /\ StoredCalendarToken(tokenFile).found)
          => /\ StoredCalendarToken(tokenFile').found
             /\ StoredCalendarToken(tokenFile').LastRefresh =
                    StoredCalendarToken(tokenFile).LastRefresh
             /\ StoredCalendarToken(tokenFile').CreatedAt =
                    StoredCalendarToken(tokenFile).CreatedAt]_vars

(***************************************************************************)
(* Claims about the determinism of the collector.                          *)
(***************************************************************************)
\* C30: for the event lists the services returned, CollectEvents returns
\* the sequence the sequential collector returns for them, whichever worker
\* appended first and in whichever order the sequential collector calls the
\* clients: the result depends on the lists only, also when events of
\* different services have equal timestamps.
C30_DeterministicAsSequential ==
    (cpc = "returned" /\ ret.err = Nil) =>
        \A order \in MapOrders(servicesToCollect) :
            ret.events = SequentialCollectEvents(order, fetched)

====
